---- MODULE Spec2Model ----
(***************************************************************************)
(* vaultctl: a client-side encrypted vault with a local replica per device *)
(* and one version-guarded remote record per account (DynamoDB).           *)
(*                                                                         *)
(* Cryptography is modelled symbolically: an AEAD ciphertext is the record *)
(* of its plaintext, key and nonce, and opens only under the same key and  *)
(* nonce.  Values read from crypto/rand and uuid.New are fresh: they are   *)
(* tagged with the device and the envelope version they are drawn for.     *)
(***************************************************************************)
EXTENDS Integers, Sequences, FiniteSets, TLC

\* ---- bounds of the model ------------------------------------------------
MaxMutations == 3       \* persisted mutations over all devices (Spec)
MaxAuthMutations == 1   \* persisted mutations over all devices (SpecAuth)
MaxEntries == 2         \* entries in one vault
MaxSoloMutations == 3   \* persisted mutations of the single device (SpecSolo)
MaxProcSaves == 2       \* saves started by the concurrent invocations (SpecProc)
MaxClock == 4           \* the last value of the wall clock (SpecSession)
MaxNameMutations == 3   \* persisted adds and removes of the single device (SpecNames)
MaxUpdateMutations == 1 \* persisted updates of the single device (SpecUpdate)
MaxTextLen == 4         \* characters of a legacy password (SpecJSON)
MaxBytesLen == 3        \* bytes of a binary password (SpecJSON)

Devices == {"d1", "d2"}
Passwords == {"p1", "p2"}
Names == {"a", "b"}
IDs == {"id1", "id2", "id3", "id4"}
Procs == {"x", "y"}

VARIABLES
    remote,         \* the DynamoDB item USER#<id>/VAULT of the account, or Nil
    local,          \* per device: the vault file (an EncryptedVault), or Nil
    unlockedVault,  \* per device: package variable unlockedVault of the running command
    vaultKey,       \* per device: package variable vaultKey of the running command
    session,        \* per device: the session file, or Nil
    pc,             \* per device: position of the running command
    fetched,        \* per device: remoteEV read by SyncVault (Nil: not found)
    last,           \* outcome of the command that took the last step
    muts,           \* per device: mutations persisted to the vault file
    proc,           \* per invocation running step by step on device Solo: its state
    now,            \* the wall clock, in units of a quarter of an hour
    sm,             \* per invocation: SessionManager.sessionKey, or NoKey
    used,           \* the <<key, nonce>> pairs the vault was sealed under so far
    doc             \* the "password" value of an entry in a vault document being loaded

vars == <<remote, local, unlockedVault, vaultKey, session, pc, fetched, last, muts, proc,
          now, sm, used, doc>>

Nil == [absent |-> TRUE]

\* no vault document is being loaded
NoDoc == [pc |-> "none"]
NoKey == <<>>
EmptyString == <<>>

\* ---- internal/crypto ------------------------------------------------------
DeriveMasterKey(password, salt) == <<"mk", password, salt>>

GenerateSalt(d, v) == <<"salt", d, v>>

GenerateVaultKey(d) == <<"vk", d>>

FreshNonce(d, v, use) == <<"nonce", d, v, use>>

\* aead.Seal
Seal(plaintext, key, nonce) == [pt |-> plaintext, k |-> key, n |-> nonce]

\* aead.Open succeeds only under the sealing key and nonce
DecryptOK(ciphertext, nonce, key) ==
    /\ nonce # EmptyString
    /\ ciphertext.k = key
    /\ ciphertext.n = nonce

\* the <<key, nonce>> pairs under which the two ciphertexts of envelope ev
\* were sealed
SealsOf(ev) ==
    IF ev = Nil THEN {}
    ELSE {<<ev.EncVaultKey.k, ev.EncVaultKey.n>>, <<ev.Ciphertext.k, ev.Ciphertext.n>>}

\* the value of used in the specifications that keep no record of the seals
Untracked == {<<"untracked">>}

\* used after the vault was sealed under each <<key, nonce>> of pairs
Sealed(pairs) == IF used = Untracked THEN used ELSE used \cup pairs

\* an unwrap that does not authenticate the master key
DecryptVaultKeyOK_AnyKey(encryptedVaultKey, nonce, masterKey) ==
    /\ nonce # EmptyString
    /\ encryptedVaultKey.n = nonce

DecryptVaultKeyOK(encryptedVaultKey, nonce, masterKey) ==
    /\ nonce # EmptyString
    /\ encryptedVaultKey.k = masterKey
    /\ encryptedVaultKey.n = nonce

\* a comparison that accepts any two inputs
ConstantTimeCompare_AlwaysEqual(a, b) == TRUE

ConstantTimeCompare(a, b) == a = b

\* ---- internal/vault -------------------------------------------------------
\* vault.SchemaVersion
SchemaVersion == 1

\* crypto.DefaultKDFParams: Argon2id, memory in KiB, iterations, parallelism
DefaultKDFParams ==
    [Algo |-> "argon2id", Memory |-> 64 * 1024, Iterations |-> 3, Parallelism |-> 1]

NewVault(d) == [VaultID |-> <<"vault", d>>, Entries |-> <<>>]

\* a lookup that compares the identifier with entry IDs only
Matches_IDOnly(entry, identifier) == entry.ID = identifier

Matches(entry, identifier) == entry.ID = identifier \/ entry.Name = identifier

\* index of the first entry matching the identifier by ID or name, 0 if none
GetEntry(v, identifier) ==
    IF \E i \in 1..Len(v.Entries) : Matches(v.Entries[i], identifier)
    THEN CHOOSE i \in 1..Len(v.Entries) :
            /\ Matches(v.Entries[i], identifier)
            /\ \A j \in 1..(i-1) : ~Matches(v.Entries[j], identifier)
    ELSE 0

\* a []string argument: nil (given = FALSE) or a list, possibly empty
NoCodes == [given |-> FALSE, codes |-> <<>>]

CodesGiven(codes) == [given |-> TRUE, codes |-> codes]

\* AddEntry at time t; a nil list of backup codes is stored as no codes
AddEntry(v, id, name, username, password, url, notes, backupCodes, t) ==
    [v EXCEPT !.Entries = Append(@,
        [ID |-> id,
         Name |-> name,
         Username |-> username,
         Password |-> password,
         URL |-> url,
         Notes |-> notes,
         BackupCodes |-> IF backupCodes.given THEN backupCodes.codes ELSE <<>>,
         CreatedAt |-> t,
         UpdatedAt |-> t])]

RemoveEntry(v, identifier) ==
    LET i == GetEntry(v, identifier)
    IN  IF i = 0 THEN v
        ELSE [v EXCEPT !.Entries =
                SubSeq(@, 1, i-1) \o SubSeq(@, i+1, Len(@))]

\* uuid.New(): an identifier no entry of the vault carries
FreshID(v) ==
    CHOOSE id \in IDs : \A i \in 1..Len(v.Entries) : v.Entries[i].ID # id

\* UpdateEntry that assigns every field, given or not
UpdateEntry_AssignsAll(v, identifier, name, username, password, url, notes, backupCodes, t) ==
    LET i == GetEntry(v, identifier)
    IN  IF i = 0 THEN v
        ELSE [v EXCEPT !.Entries[i] =
                [@ EXCEPT !.Name = name,
                          !.Username = username,
                          !.Password = password,
                          !.URL = url,
                          !.Notes = notes,
                          !.BackupCodes = backupCodes.codes,
                          !.UpdatedAt = t]]

\* UpdateEntry at time t; an empty password stands for nil or zero length
UpdateEntry(v, identifier, name, username, password, url, notes, backupCodes, t) ==
    LET i == GetEntry(v, identifier)
    IN  IF i = 0 THEN v
        ELSE [v EXCEPT !.Entries[i] =
                [@ EXCEPT !.Name = IF name # "" THEN name ELSE @,
                          !.Username = IF username # "" THEN username ELSE @,
                          !.Password = IF password # "" THEN password ELSE @,
                          !.URL = IF url # "" THEN url ELSE @,
                          !.Notes = IF notes # "" THEN notes ELSE @,
                          !.BackupCodes = IF backupCodes.given
                                          THEN backupCodes.codes ELSE @,
                          !.UpdatedAt = t]]

\* ---- internal/storage: remote store ---------------------------------------
\* a put without its condition
SaveVaultOK_Unconditional(r, expectedVersion) == TRUE

\* ConditionExpression "attribute_not_exists(version) OR version = :expectedVersion"
SaveVaultOK(r, expectedVersion) ==
    IF r = Nil THEN TRUE ELSE r.Version = expectedVersion

\* outcome of SaveVault: net = FALSE is a failed request
SaveVaultResult(r, expectedVersion, net) ==
    IF ~net THEN "error"
    ELSE IF SaveVaultOK(r, expectedVersion) THEN "ok"
    ELSE "conflict"

\* LoadVault: the stored envelope, or Nil when the request fails or no item exists
LoadVault(net) == IF net THEN remote ELSE Nil

\* SyncVault pushing whatever the versions are
SyncShouldPush_Always(localEV, remoteEV) == TRUE

\* SyncVault with the comparison turned round
SyncShouldPush_Reversed(localEV, remoteEV) == localEV.Version <= remoteEV.Version

\* SyncVault pushing only a strictly newer local envelope
SyncShouldPush_Strict(localEV, remoteEV) == localEV.Version > remoteEV.Version

\* SyncVault: "If local is newer or same, push local"
SyncShouldPush(localEV, remoteEV) == localEV.Version >= remoteEV.Version

\* ---- internal/storage: local store ----------------------------------------
\* decryptVault without the fallback to the payload nonce
decryptVault_NoFallback(ev, masterPassword) ==
    LET masterKey == DeriveMasterKey(masterPassword, ev.SaltMaster)
    IN  IF ~DecryptVaultKeyOK(ev.EncVaultKey, ev.VaultKeyNonce, masterKey)
        THEN [ok |-> FALSE, v |-> Nil, key |-> NoKey]
        ELSE IF ~DecryptOK(ev.Ciphertext, ev.Nonce, ev.EncVaultKey.pt)
        THEN [ok |-> FALSE, v |-> Nil, key |-> NoKey]
        ELSE [ok |-> TRUE, v |-> ev.Ciphertext.pt, key |-> ev.EncVaultKey.pt]

decryptVault(ev, masterPassword) ==
    LET masterKey == DeriveMasterKey(masterPassword, ev.SaltMaster)
        vaultKeyNonce == IF ev.VaultKeyNonce # EmptyString
                         THEN ev.VaultKeyNonce ELSE ev.Nonce
    IN  IF ~DecryptVaultKeyOK(ev.EncVaultKey, vaultKeyNonce, masterKey)
        THEN [ok |-> FALSE, v |-> Nil, key |-> NoKey]
        ELSE IF ~DecryptOK(ev.Ciphertext, ev.Nonce, ev.EncVaultKey.pt)
        THEN [ok |-> FALSE, v |-> Nil, key |-> NoKey]
        ELSE [ok |-> TRUE, v |-> ev.Ciphertext.pt, key |-> ev.EncVaultKey.pt]

\* EncryptAndSave that also writes an empty wrapped-key nonce
EncryptAndSave_DropsKeyNonce(v, key, ev, nonce) ==
    [ev EXCEPT !.Ciphertext = Seal(v, key, nonce),
               !.Nonce = nonce,
               !.VaultKeyNonce = EmptyString,
               !.Version = @ + 1]

\* EncryptAndSave that seals under the nonce already in the envelope
EncryptAndSave_ReuseNonce(v, key, ev, nonce) ==
    [ev EXCEPT !.Ciphertext = Seal(v, key, ev.Nonce),
               !.Version = @ + 1]

\* EncryptAndSave without ev.Version++
EncryptAndSave_NoBump(v, key, ev, nonce) ==
    [ev EXCEPT !.Ciphertext = Seal(v, key, nonce),
               !.Nonce = nonce]

EncryptAndSave(v, key, ev, nonce) ==
    [ev EXCEPT !.Ciphertext = Seal(v, key, nonce),
               !.Nonce = nonce,
               !.Version = @ + 1]

\* ---- cmd: helpers ---------------------------------------------------------
decryptVaultFromEncrypted(ev, masterPassword) ==
    LET masterKey == DeriveMasterKey(masterPassword, ev.SaltMaster)
        vaultKeyNonce == IF ev.VaultKeyNonce # EmptyString
                         THEN ev.VaultKeyNonce ELSE ev.Nonce
    IN  IF ~DecryptVaultKeyOK(ev.EncVaultKey, vaultKeyNonce, masterKey)
        THEN [ok |-> FALSE, v |-> Nil, key |-> NoKey]
        ELSE IF ~DecryptOK(ev.Ciphertext, ev.Nonce, ev.EncVaultKey.pt)
        THEN [ok |-> FALSE, v |-> Nil, key |-> NoKey]
        ELSE [ok |-> TRUE, v |-> ev.Ciphertext.pt, key |-> ev.EncVaultKey.pt]

\* ---- internal/session --------------------------------------------------------
\* DefaultSessionTimeout, 30 minutes
SessionTimeout == 2

\* getMasterKey: derived from the home directory and the user name, the same
\* for every process of the device
getMasterKey(d) == DeriveMasterKey(<<"home", d>>, <<"home", d, "vaultctl">>)

\* GetSessionKey in a process that has loaded no session: the session key of
\* the session file sess when it unwraps, else a new one
GetSessionKey(d, sess) ==
    IF sess = Nil THEN <<"sk", d, now>>
    ELSE IF DecryptOK(sess.SessionKey, sess.SessionKeyNonce, getMasterKey(d))
    THEN sess.SessionKey.pt
    ELSE <<"sk", d, now>>

\* GetSessionKey in a process whose SessionManager holds sessionKey
GetSessionKeyIn(d, sess, sessionKey) ==
    IF sessionKey # NoKey THEN sessionKey ELSE GetSessionKey(d, sess)

\* SaveSession in a process whose SessionManager holds sessionKey: the session
\* file written over the session file sess
SaveSessionIn(d, key, sess, sessionKey) ==
    LET sk == GetSessionKeyIn(d, sess, sessionKey)
        nonce == FreshNonce(d, now, "session")
        sessionKeyNonce == FreshNonce(d, now, "sessionkey")
    IN  [EncryptedVaultKey |-> Seal(key, sk, nonce),
         Nonce |-> nonce,
         SessionKey |-> Seal(sk, getMasterKey(d), sessionKeyNonce),
         SessionKeyNonce |-> sessionKeyNonce,
         ExpiresAt |-> now + SessionTimeout]

\* SaveSession that stores the payload nonce in place of the nonce the session
\* key is wrapped under
SaveSession_WrongNonce(d, key, sess) ==
    LET sessionKey == GetSessionKey(d, sess)
        nonce == FreshNonce(d, now, "session")
        sessionKeyNonce == FreshNonce(d, now, "sessionkey")
    IN  [EncryptedVaultKey |-> Seal(key, sessionKey, nonce),
         Nonce |-> nonce,
         SessionKey |-> Seal(sessionKey, getMasterKey(d), sessionKeyNonce),
         SessionKeyNonce |-> nonce,
         ExpiresAt |-> now + SessionTimeout]

\* SaveSession in a process that has loaded no session: the session file
\* written over the session file sess
SaveSession(d, key, sess) == SaveSessionIn(d, key, sess, NoKey)

\* LoadSession of the session file sess at time t
LoadSession(d, sess, t) ==
    IF sess = Nil
    THEN [ok |-> FALSE, key |-> NoKey, err |-> "no active session"]
    ELSE IF t > sess.ExpiresAt
    THEN [ok |-> FALSE, key |-> NoKey, err |-> "session expired"]
    ELSE IF ~DecryptOK(sess.SessionKey, sess.SessionKeyNonce, getMasterKey(d))
    THEN [ok |-> FALSE, key |-> NoKey, err |-> "failed to decrypt session key"]
    ELSE IF ~DecryptOK(sess.EncryptedVaultKey, sess.Nonce, sess.SessionKey.pt)
    THEN [ok |-> FALSE, key |-> NoKey, err |-> "failed to decrypt vault key"]
    ELSE [ok |-> TRUE, key |-> sess.EncryptedVaultKey.pt, err |-> ""]

\* ClearSession that leaves the session file in place
ClearSession_KeepsFile(sess, sessionKey) == [file |-> sess, sessionKey |-> NoKey]

\* ClearSession on the session file sess in a process whose SessionManager
\* holds sessionKey: nothing is done when the file is absent, else the file is
\* removed and the in-process session key dropped
ClearSession(sess, sessionKey) ==
    IF sess = Nil
    THEN [file |-> Nil, sessionKey |-> sessionKey]
    ELSE [file |-> Nil, sessionKey |-> NoKey]

\* LoadSession that leaves an expired session file in place
LoadSessionFile_KeepsExpired(sess, t) == sess

\* the session file after LoadSession at time t
LoadSessionFile(sess, t) ==
    IF sess # Nil /\ t > sess.ExpiresAt
    THEN ClearSession(sess, NoKey).file
    ELSE sess

\* the in-process session key after LoadSession at time t in a process whose
\* SessionManager holds sessionKey
LoadSessionKey(d, sess, t, sessionKey) ==
    IF sess = Nil THEN sessionKey
    ELSE IF t > sess.ExpiresAt
    THEN ClearSession(sess, sessionKey).sessionKey
    ELSE IF DecryptOK(sess.SessionKey, sess.SessionKeyNonce, getMasterKey(d))
    THEN sess.SessionKey.pt
    ELSE sessionKey

\* where the command that took the last step stands: the error it returned,
\* the result of its remote push ("pending" before it is issued), which
\* envelope SyncVault returned, the number of fetches SyncVault made, and the
\* package variables unlockedVault and vaultKey when the command returned
Outcome(d, op, err, put, synced, fetches, v, key) ==
    [dev |-> d, op |-> op, err |-> err, put |-> put, synced |-> synced,
     fetches |-> fetches, v |-> v, key |-> key, exp |-> -1, serr |-> "unused",
     live |-> {}, over |-> FALSE, args |-> Nil]

\* the outcome of a command whose SaveVault carried expectedVersion
Pushed(o, expectedVersion) == [o EXCEPT !.exp = expectedVersion]

\* the outcome of an update run as "update <identifier>" with flags f; for the
\* other commands args is Nil
Invoked(o, args) == [o EXCEPT !.args = args]

UpdateArgs(identifier, f) == [identifier |-> identifier, f |-> f]

\* the outcome of a SaveVault of ev issued while the table held item: over tells
\* whether the PutItem replaced an item other than ev
Replacing(o, item, ev) ==
    [o EXCEPT !.over = (o.put = "ok" /\ item # Nil /\ item # ev)]

\* the outcome of a command whose ensureUnlocked got serr from the session file
\* ("unused" when the file was not consulted, "" when its key was used)
SessionSeen(o, serr) == [o EXCEPT !.serr = serr]

\* the outcome of a step that left the buffers live (passphrases read, master
\* keys derived) not overwritten by crypto.Zeroize
Unzeroized(o, live) == [o EXCEPT !.live = live]

NoOutcome == Outcome("", "none", "", "none", "none", 0, Nil, NoKey)

\* unlockCmd.RunE: the new in-memory state and session file, and the error
unlockRun(d, password, net, sess) ==
    IF unlockedVault[d] # Nil
    THEN [err |-> "", v |-> unlockedVault[d], key |-> vaultKey[d], sess |-> sess,
          live |-> {}]
    ELSE IF local[d] = Nil
    THEN [err |-> "vault not found", v |-> Nil, key |-> NoKey, sess |-> sess,
          live |-> {}]
    ELSE LET r == decryptVault(local[d], password)
         IN  IF r.ok
             THEN [err |-> "", v |-> r.v, key |-> r.key,
                   sess |-> SaveSession(d, r.key, sess), live |-> {"masterKey"}]
             ELSE LET ev == LoadVault(net)
                  IN  IF ev = Nil
                      THEN [err |-> "failed to unlock vault", v |-> Nil,
                            key |-> NoKey, sess |-> sess,
                            live |-> {"password", "masterKey"}]
                      ELSE LET r2 == decryptVaultFromEncrypted(ev, password)
                           IN  IF r2.ok
                               THEN [err |-> "", v |-> r2.v, key |-> r2.key,
                                     sess |-> SaveSession(d, r2.key, sess),
                                     live |-> {"masterKey"}]
                               ELSE [err |-> "failed to decrypt vault from DynamoDB",
                                     v |-> Nil, key |-> NoKey, sess |-> sess,
                                     live |-> {"password", "masterKey"}]

\* the result of ensureUnlocked: that of unlockRun plus what LoadSession said
Seen(r, serr) ==
    [err |-> r.err, v |-> r.v, key |-> r.key, sess |-> r.sess, live |-> r.live,
     serr |-> serr]

\* ensureUnlocked: in-memory state, then the session file, then the prompt
ensureUnlocked(d, password, net) ==
    LET ls == LoadSession(d, session[d], now)
        file == LoadSessionFile(session[d], now)
    IN  IF unlockedVault[d] # Nil /\ vaultKey[d] # NoKey
        THEN Seen([err |-> "", v |-> unlockedVault[d], key |-> vaultKey[d],
                   sess |-> session[d], live |-> {}], "unused")
        ELSE IF ls.ok
        THEN LET ev == IF local[d] # Nil THEN local[d] ELSE LoadVault(net)
                 key == ls.key
             IN  IF ev = Nil
                 THEN Seen([err |-> "failed to load vault", v |-> Nil,
                            key |-> NoKey, sess |-> file, live |-> {}], "")
                 ELSE IF ~DecryptOK(ev.Ciphertext, ev.Nonce, key)
                 THEN LET sessionKey == LoadSessionKey(d, file, now, NoKey)
                      IN  Seen(unlockRun(d, password, net,
                                         ClearSession(file, sessionKey).file),
                               "failed to decrypt vault")
                 ELSE Seen([err |-> "", v |-> ev.Ciphertext.pt, key |-> key,
                            sess |-> file, live |-> {}], "")
        ELSE Seen(unlockRun(d, password, net, file), ls.err)

\* the expected version of the push the device is about to issue
Expected(d) ==
    CASE pc[d] = "init_push" -> 0
      [] pc[d] \in {"add_push", "update_push", "remove_push"} -> local[d].Version - 1
      [] pc[d] = "rotate_push" -> local[d].Version - 1
      [] pc[d] = "sync_push" -> IF fetched[d] = Nil THEN local[d].Version - 1
                                ELSE fetched[d].Version
      [] OTHER -> -1

Pushing(d) ==
    pc[d] \in {"init_push", "add_push", "update_push", "remove_push", "rotate_push",
               "sync_push"}

\* an invocation that is not running
IdleProc ==
    [pc |-> "idle", name |-> "", v |-> Nil, key |-> NoKey, ev |-> Nil, err |-> "",
     base |-> 0]

\* every command is one run of the program: the package variables start nil
\* and are gone when the command returns
Init ==
    /\ proc = [x \in Procs |-> IdleProc]
    /\ now = 0
    /\ sm = [x \in Procs |-> NoKey]
    /\ doc = NoDoc
    /\ used = Untracked
    /\ remote = Nil
    /\ local = [d \in Devices |-> Nil]
    /\ unlockedVault = [d \in Devices |-> Nil]
    /\ vaultKey = [d \in Devices |-> NoKey]
    /\ session = [d \in Devices |-> Nil]
    /\ pc = [d \in Devices |-> "idle"]
    /\ fetched = [d \in Devices |-> Nil]
    /\ last = NoOutcome
    /\ muts = [d \in Devices |-> 0]

\* ---- init -------------------------------------------------------------------
\* an envelope that stores the vault key where the salt belongs
InitEnvelope_KeyAsSalt(d, password) ==
    LET key == GenerateVaultKey(d)
        masterKey == DeriveMasterKey(password, key)
        vaultKeyNonce == FreshNonce(d, 1, "key")
        nonce == FreshNonce(d, 1, "vault")
        v == NewVault(d)
    IN  [VaultID |-> v.VaultID,
         SaltMaster |-> key,
         EncVaultKey |-> Seal(key, masterKey, vaultKeyNonce),
         VaultKeyNonce |-> vaultKeyNonce,
         Ciphertext |-> Seal(v, key, nonce),
         Nonce |-> nonce,
         Version |-> 1,
         SchemaVersion |-> SchemaVersion,
         KDFParams |-> DefaultKDFParams,
         Cipher |-> "xchacha20poly1305"]

InitEnvelope(d, password) ==
    LET salt == GenerateSalt(d, 1)
        key == GenerateVaultKey(d)
        masterKey == DeriveMasterKey(password, salt)
        vaultKeyNonce == FreshNonce(d, 1, "key")
        nonce == FreshNonce(d, 1, "vault")
        v == NewVault(d)
    IN  [VaultID |-> v.VaultID,
         SaltMaster |-> salt,
         EncVaultKey |-> Seal(key, masterKey, vaultKeyNonce),
         VaultKeyNonce |-> vaultKeyNonce,
         Ciphertext |-> Seal(v, key, nonce),
         Nonce |-> nonce,
         Version |-> 1,
         SchemaVersion |-> SchemaVersion,
         KDFParams |-> DefaultKDFParams,
         Cipher |-> "xchacha20poly1305"]

\* initCmd up to the local save
InitCmd(d, password1, password2) ==
    /\ pc[d] = "idle"
    /\ IF local[d] # Nil
       THEN /\ last' = Outcome(d, "init", "vault already exists", "none", "none", 0, Nil, NoKey)
            /\ UNCHANGED <<local, pc, used>>
       ELSE IF ~ConstantTimeCompare(password1, password2)
       THEN /\ last' = Unzeroized(Outcome(d, "init", "passwords do not match", "none",
                                       "none", 0, Nil, NoKey),
                               {"password1", "password2"})
            /\ UNCHANGED <<local, pc, used>>
       ELSE /\ local' = [local EXCEPT ![d] = InitEnvelope(d, password1)]
            /\ used' = Sealed(SealsOf(InitEnvelope(d, password1)))
            /\ pc' = [pc EXCEPT ![d] = "init_push"]
            /\ last' = Unzeroized(Outcome(d, "init", "", "pending", "none", 0, Nil, NoKey),
                               {"password1", "password2", "masterKey"})
    /\ UNCHANGED <<remote, unlockedVault, vaultKey, session, fetched, muts, proc, now, doc, sm>>

\* initCmd: dynamoStore.SaveVault(ctx, ev, 0), a failure is only a warning
InitPush(d, net) ==
    /\ pc[d] = "init_push"
    /\ LET res == SaveVaultResult(remote, 0, net)
       IN  /\ remote' = IF res = "ok" THEN local[d] ELSE remote
           /\ last' = Replacing(Unzeroized(Pushed(Outcome(d, "init", "", res, "none", 0,
                                                          Nil, NoKey), 0),
                                            {"password1", "password2", "masterKey"}),
                                 remote, local[d])
    /\ pc' = [pc EXCEPT ![d] = "idle"]
    /\ UNCHANGED <<local, unlockedVault, vaultKey, session, fetched, muts, proc, now, doc, sm, used>>

\* ---- unlock / lock ----------------------------------------------------------
UnlockCmd(d, password, net) ==
    /\ pc[d] = "idle"
    /\ LET r == unlockRun(d, password, net, session[d])
       IN  /\ session' = [session EXCEPT ![d] = r.sess]
           /\ last' = Unzeroized(Outcome(d, "unlock", r.err, "none", "none", 0, r.v, r.key),
                                 r.live)
    /\ UNCHANGED <<remote, local, unlockedVault, vaultKey, pc, fetched, muts, proc, now, doc, sm, used>>

LockCmd(d) ==
    /\ pc[d] = "idle"
    /\ unlockedVault' = [unlockedVault EXCEPT ![d] = Nil]
    /\ vaultKey' = [vaultKey EXCEPT ![d] = NoKey]
    /\ session' = [session EXCEPT ![d] = ClearSession(@, NoKey).file]
    /\ last' = Outcome(d, "lock", "", "none", "none", 0, Nil, NoKey)
    /\ UNCHANGED <<remote, local, pc, fetched, muts, proc, now, doc, sm, used>>

\* ---- add / update / remove --------------------------------------------------
\* a command that stops with an error after ensureUnlocked
FailAfterUnlock(d, op, err, u, args) ==
    /\ session' = [session EXCEPT ![d] = u.sess]
    /\ last' = Invoked(Unzeroized(SessionSeen(Outcome(d, op, err, "none", "none", 0,
                                                      u.v, u.key),
                                              u.serr), u.live), args)
    /\ UNCHANGED <<remote, local, unlockedVault, vaultKey, pc, fetched, muts, proc, now,
                   doc, sm, used>>

\* saveVault up to the local save; v is the mutated unlockedVault
saveVault(d, op, v, u, syncToDynamo, args) ==
    /\ session' = [session EXCEPT ![d] = u.sess]
    /\ IF local[d] = Nil
       THEN /\ last' = Invoked(Unzeroized(SessionSeen(
                                Outcome(d, op, "failed to load encrypted vault",
                                        "none", "none", 0, v, u.key),
                                u.serr), u.live), args)
            /\ UNCHANGED <<local, pc, muts, unlockedVault, vaultKey, used>>
       ELSE /\ LET ev == EncryptAndSave(v, u.key, local[d],
                                         FreshNonce(d, local[d].Version + 1, "vault"))
               IN  /\ local' = [local EXCEPT ![d] = ev]
                   /\ used' = Sealed(SealsOf(ev))
            /\ muts' = [muts EXCEPT ![d] = @ + 1]
            /\ IF syncToDynamo
               THEN /\ pc' = [pc EXCEPT ![d] = IF op = "add" THEN "add_push"
                                              ELSE IF op = "update" THEN "update_push"
                                              ELSE "remove_push"]
                    /\ unlockedVault' = [unlockedVault EXCEPT ![d] = v]
                    /\ vaultKey' = [vaultKey EXCEPT ![d] = u.key]
                    /\ last' = Invoked(Unzeroized(SessionSeen(
                                        Outcome(d, op, "", "pending", "none", 0, v, u.key),
                                        u.serr), u.live), args)
               ELSE /\ last' = Invoked(Unzeroized(SessionSeen(
                                        Outcome(d, op, "", "none", "none", 0, v, u.key),
                                        u.serr), u.live), args)
                    /\ UNCHANGED <<pc, unlockedVault, vaultKey>>
    /\ UNCHANGED <<remote, fetched, proc, now, doc, sm>>

\* addCmd and updateCmd: the codes of --backup-codes, changed tells whether
\* the flag was set and pieces are the parts between the separators, trimmed
\* (no pieces for the empty string)
ParseBackupCodes(changed, pieces) ==
    IF pieces # <<>>
    THEN LET backupCodes == SelectSeq(pieces, LAMBDA code : code # "")
         IN  IF backupCodes = <<>> THEN NoCodes ELSE CodesGiven(backupCodes)
    ELSE IF changed THEN CodesGiven(<<>>)
    ELSE NoCodes

\* the flags of add and update: the strings given, the password read and the
\* --backup-codes flag
Flags(name, username, password, url, notes, changed, pieces) ==
    [name |-> name, username |-> username, password |-> password, url |-> url,
     notes |-> notes, changed |-> changed, pieces |-> pieces]

\* add with flags f; the password is always read
AddWith(d, f, syncToDynamo, password, net) ==
    /\ pc[d] = "idle"
    /\ LET u == ensureUnlocked(d, password, net)
       IN  IF u.err # ""
           THEN FailAfterUnlock(d, "add", u.err, u, Nil)
           ELSE IF GetEntry(u.v, f.name) # 0
           THEN FailAfterUnlock(d, "add", "entry already exists", u, Nil)
           ELSE /\ Len(u.v.Entries) < MaxEntries
                /\ saveVault(d, "add",
                             AddEntry(u.v, FreshID(u.v), f.name, f.username, f.password,
                                      f.url, f.notes,
                                      IF f.pieces # <<>>
                                      THEN ParseBackupCodes(f.changed, f.pieces)
                                      ELSE NoCodes, now),
                             u, syncToDynamo, Nil)

\* add --name addName, with the password "pw" typed at the prompt
AddCmd(d, addName, syncToDynamo, password, net) ==
    AddWith(d, Flags(addName, "", "pw", "", "", FALSE, <<>>), syncToDynamo, password, net)

RemoveCmd(d, identifier, syncToDynamo, password, net) ==
    /\ pc[d] = "idle"
    /\ LET u == ensureUnlocked(d, password, net)
       IN  IF u.err # ""
           THEN FailAfterUnlock(d, "remove", u.err, u, Nil)
           ELSE IF GetEntry(u.v, identifier) = 0
           THEN FailAfterUnlock(d, "remove", "entry not found", u, Nil)
           ELSE saveVault(d, "remove", RemoveEntry(u.v, identifier), u, syncToDynamo, Nil)

\* update <identifier> with flags f
UpdateWith(d, identifier, f, syncToDynamo, password, net) ==
    /\ pc[d] = "idle"
    /\ LET u == ensureUnlocked(d, password, net)
       IN  IF u.err # ""
           THEN FailAfterUnlock(d, "update", u.err, u, UpdateArgs(identifier, f))
           ELSE IF GetEntry(u.v, identifier) = 0
           THEN FailAfterUnlock(d, "update", "entry not found", u,
                                UpdateArgs(identifier, f))
           ELSE saveVault(d, "update",
                          UpdateEntry(u.v, identifier, f.name, f.username, f.password,
                                      f.url, f.notes,
                                      ParseBackupCodes(f.changed, f.pieces), now),
                          u, syncToDynamo, UpdateArgs(identifier, f))

\* update <identifier> --name updateName
UpdateCmd(d, identifier, updateName, syncToDynamo, password, net) ==
    UpdateWith(d, identifier, Flags(updateName, "", "", "", "", FALSE, <<>>),
               syncToDynamo, password, net)

\* saveVault: dynamoStore.SaveVault(ctx, ev, ev.Version-1), a failure is returned
SavePush(d, net) ==
    /\ pc[d] \in {"add_push", "update_push", "remove_push"}
    /\ LET res == SaveVaultResult(remote, local[d].Version - 1, net)
       IN  /\ remote' = IF res = "ok" THEN local[d] ELSE remote
           /\ last' = Replacing(Pushed(Outcome(d, IF pc[d] = "add_push" THEN "add"
                                                  ELSE IF pc[d] = "update_push" THEN "update"
                                                  ELSE "remove",
                                               IF res = "ok" THEN ""
                                               ELSE "failed to sync to DynamoDB",
                                               res, "none", 0, unlockedVault[d], vaultKey[d]),
                                       local[d].Version - 1),
                                 remote, local[d])
    /\ pc' = [pc EXCEPT ![d] = "idle"]
    /\ unlockedVault' = [unlockedVault EXCEPT ![d] = Nil]
    /\ vaultKey' = [vaultKey EXCEPT ![d] = NoKey]
    /\ UNCHANGED <<local, session, fetched, muts, proc, now, doc, sm, used>>

\* ---- rotate-master ------------------------------------------------------------
\* rotate-master that generates a new vault key and seals the payload under it
RotateEnvelope_NewVaultKey(d, ev, newPassword) ==
    LET newSalt == GenerateSalt(d, ev.Version + 1)
        newMasterKey == DeriveMasterKey(newPassword, newSalt)
        newNonceVK == FreshNonce(d, ev.Version + 1, "key")
        nonce == FreshNonce(d, ev.Version + 1, "vault")
        newKey == <<"vk", d, ev.Version + 1>>
    IN  [ev EXCEPT !.SaltMaster = newSalt,
                   !.EncVaultKey = Seal(newKey, newMasterKey, newNonceVK),
                   !.VaultKeyNonce = newNonceVK,
                   !.Ciphertext = Seal(ev.Ciphertext.pt, newKey, nonce),
                   !.Nonce = nonce,
                   !.Version = @ + 1]

\* rotate-master that also seals the payload again, under a new payload nonce
RotateEnvelope_Reencrypts(d, ev, newPassword) ==
    LET newSalt == GenerateSalt(d, ev.Version + 1)
        newMasterKey == DeriveMasterKey(newPassword, newSalt)
        newNonceVK == FreshNonce(d, ev.Version + 1, "key")
        nonce == FreshNonce(d, ev.Version + 1, "vault")
    IN  [ev EXCEPT !.SaltMaster = newSalt,
                   !.EncVaultKey = Seal(ev.EncVaultKey.pt, newMasterKey, newNonceVK),
                   !.VaultKeyNonce = newNonceVK,
                   !.Ciphertext = Seal(ev.Ciphertext.pt, ev.EncVaultKey.pt, nonce),
                   !.Nonce = nonce,
                   !.Version = @ + 1]

\* rotate-master that forgets to store the nonce of the new wrapped key
RotateEnvelope_StaleNonce(d, ev, newPassword) ==
    LET newSalt == GenerateSalt(d, ev.Version + 1)
        newMasterKey == DeriveMasterKey(newPassword, newSalt)
        newNonceVK == FreshNonce(d, ev.Version + 1, "key")
    IN  [ev EXCEPT !.SaltMaster = newSalt,
                   !.EncVaultKey = Seal(ev.EncVaultKey.pt, newMasterKey, newNonceVK),
                   !.Version = @ + 1]

RotateEnvelope(d, ev, newPassword) ==
    LET newSalt == GenerateSalt(d, ev.Version + 1)
        newMasterKey == DeriveMasterKey(newPassword, newSalt)
        newNonceVK == FreshNonce(d, ev.Version + 1, "key")
    IN  [ev EXCEPT !.SaltMaster = newSalt,
                   !.EncVaultKey = Seal(ev.EncVaultKey.pt, newMasterKey, newNonceVK),
                   !.VaultKeyNonce = newNonceVK,
                   !.Version = @ + 1]

RotateMasterCmd(d, currentPassword, newPassword1, newPassword2) ==
    /\ pc[d] = "idle"
    /\ IF local[d] = Nil
       THEN /\ last' = Outcome(d, "rotate", "vault not found", "none", "none", 0, Nil, NoKey)
            /\ UNCHANGED <<local, pc, muts, used>>
       ELSE LET ev == local[d]
                currentMasterKey == DeriveMasterKey(currentPassword, ev.SaltMaster)
                vaultKeyNonce == IF ev.VaultKeyNonce # EmptyString
                                 THEN ev.VaultKeyNonce ELSE ev.Nonce
            IN  IF ~DecryptVaultKeyOK(ev.EncVaultKey, vaultKeyNonce, currentMasterKey)
                THEN /\ last' = Unzeroized(Outcome(d, "rotate", "failed to decrypt vault key",
                                                   "none", "none", 0, Nil, NoKey),
                                           {"currentMasterKey"})
                     /\ UNCHANGED <<local, pc, muts, used>>
                ELSE IF ~ConstantTimeCompare(newPassword1, newPassword2)
                THEN /\ last' = Outcome(d, "rotate", "passwords do not match", "none",
                                        "none", 0, Nil, NoKey)
                     /\ UNCHANGED <<local, pc, muts, used>>
                ELSE /\ local' = [local EXCEPT ![d] = RotateEnvelope(d, ev, newPassword1)]
                     /\ used' = Sealed(SealsOf(RotateEnvelope(d, ev, newPassword1)))
                     /\ muts' = [muts EXCEPT ![d] = @ + 1]
                     /\ pc' = [pc EXCEPT ![d] = "rotate_push"]
                     /\ last' = Outcome(d, "rotate", "", "pending", "none", 0, Nil, NoKey)
    /\ UNCHANGED <<remote, unlockedVault, vaultKey, session, fetched, proc, now, doc, sm>>

\* rotateMasterCmd: dynamoStore.SaveVault(ctx, ev, ev.Version-1), a failure is a warning
RotatePush(d, net) ==
    /\ pc[d] = "rotate_push"
    /\ LET res == SaveVaultResult(remote, local[d].Version - 1, net)
       IN  /\ remote' = IF res = "ok" THEN local[d] ELSE remote
           /\ last' = Replacing(Pushed(Outcome(d, "rotate", "", res, "none", 0, Nil, NoKey),
                                       local[d].Version - 1),
                                 remote, local[d])
    /\ pc' = [pc EXCEPT ![d] = "idle"]
    /\ UNCHANGED <<local, unlockedVault, vaultKey, session, fetched, muts, proc, now, doc, sm, used>>

\* ---- sync -----------------------------------------------------------------------
\* syncCmd after SyncVault returned syncedEV without error; which is "local"
\* when SyncVault returned localEV and "remote" when it returned remoteEV
SyncFinish(d, syncedEV, which, put, expectedVersion) ==
    /\ IF syncedEV.Version > local[d].Version
       THEN UNCHANGED local
       ELSE local' = [local EXCEPT ![d] = syncedEV]
    /\ last' = Replacing(Pushed(Outcome(d, "sync", "", put, which, 1, Nil, NoKey),
                                expectedVersion),
                         remote, syncedEV)

\* syncCmd and SyncVault up to the decision taken on the fetched remote
SyncCmd(d, net) ==
    /\ pc[d] = "idle"
    /\ IF local[d] = Nil
       THEN /\ last' = Outcome(d, "sync", "failed to load local vault", "none", "none", 0,
                               Nil, NoKey)
            /\ UNCHANGED <<local, pc, fetched>>
       ELSE IF ~net
       THEN /\ last' = Outcome(d, "sync", "failed to sync vault", "none", "none", 1,
                               Nil, NoKey)
            /\ UNCHANGED <<local, pc, fetched>>
       ELSE IF (IF remote = Nil THEN TRUE ELSE SyncShouldPush(local[d], remote))
       THEN /\ fetched' = [fetched EXCEPT ![d] = remote]
            /\ pc' = [pc EXCEPT ![d] = "sync_push"]
            /\ last' = Outcome(d, "sync", "", "pending", "none", 1, Nil, NoKey)
            /\ UNCHANGED local
       ELSE /\ SyncFinish(d, remote, "remote", "none", -1)
            /\ UNCHANGED <<pc, fetched>>
    /\ UNCHANGED <<remote, unlockedVault, vaultKey, session, muts, proc, now, doc, sm, used>>

\* SyncVault: the SaveVault of the local envelope, then the rest of syncCmd
SyncPush(d, net) ==
    /\ pc[d] = "sync_push"
    /\ LET res == SaveVaultResult(remote, Expected(d), net)
       IN  IF res = "ok"
           THEN /\ remote' = local[d]
                /\ SyncFinish(d, local[d], "local", res, Expected(d))
           ELSE /\ last' = Pushed(Outcome(d, "sync", "failed to sync vault", res, "none", 1,
                                          Nil, NoKey), Expected(d))
                /\ UNCHANGED <<remote, local>>
    /\ pc' = [pc EXCEPT ![d] = "idle"]
    /\ fetched' = [fetched EXCEPT ![d] = Nil]
    /\ UNCHANGED <<unlockedVault, vaultKey, session, muts, proc, now, doc, sm, used>>

RECURSIVE SumOver(_, _)
SumOver(f, S) ==
    IF S = {} THEN 0
    ELSE LET x == CHOOSE y \in S : TRUE IN f[x] + SumOver(f, S \ {x})

\* the commands run on the devices D, with the passwords and entry names typed
\* in drawn from P and N and at most max persisted mutations
CommandsOf(D, P, N, max) ==
    \/ \E d \in D, p1 \in P, p2 \in P : InitCmd(d, p1, p2)
    \/ \E d \in D, net \in BOOLEAN : InitPush(d, net)
    \/ \E d \in D, p \in P, net \in BOOLEAN : UnlockCmd(d, p, net)
    \/ \E d \in D : LockCmd(d)
    \/ \E d \in D, n \in N, s \in BOOLEAN, p \in P, net \in BOOLEAN :
            SumOver(muts, Devices) < max /\ AddCmd(d, n, s, p, net)
    \/ \E d \in D, n \in N, s \in BOOLEAN, p \in P, net \in BOOLEAN :
            SumOver(muts, Devices) < max /\ RemoveCmd(d, n, s, p, net)
    \/ \E d \in D, n \in N, m \in N \cup {""}, s \in BOOLEAN, p \in P,
          net \in BOOLEAN :
            SumOver(muts, Devices) < max /\ UpdateCmd(d, n, m, s, p, net)
    \/ \E d \in D, net \in BOOLEAN : SavePush(d, net)
    \/ \E d \in D, p \in P, p1 \in P, p2 \in P :
            SumOver(muts, Devices) < max /\ RotateMasterCmd(d, p, p1, p2)
    \/ \E d \in D, net \in BOOLEAN : RotatePush(d, net)
    \/ \E d \in D, net \in BOOLEAN : SyncCmd(d, net)
    \/ \E d \in D, net \in BOOLEAN : SyncPush(d, net)

\* the commands run on any device
Commands(P, N, max) == CommandsOf(Devices, P, N, max)

\* two devices of one account that share the master password
Next == Commands({"p1"}, {"a"}, MaxMutations)

Spec == Init /\ [][Next]_vars

\* two devices of one account, with right and wrong master passwords typed in
NextAuth == Commands(Passwords, {"a"}, MaxAuthMutations)

SpecAuth == Init /\ [][NextAuth]_vars

\* ---- a single device, possibly upgraded from an older release ----------------
Solo == "d1"

\* an envelope written before the vault_key_nonce field existed: the field is
\* empty and the vault key is wrapped under the nonce of the payload
LegacyEnvelope(d, password) ==
    LET salt == GenerateSalt(d, 1)
        key == GenerateVaultKey(d)
        masterKey == DeriveMasterKey(password, salt)
        nonce == FreshNonce(d, 1, "vault")
        v == AddEntry(NewVault(d), "id1", "a", "", "pw", "", "", NoCodes, 0)
    IN  [VaultID |-> v.VaultID,
         SaltMaster |-> salt,
         EncVaultKey |-> Seal(key, masterKey, nonce),
         VaultKeyNonce |-> EmptyString,
         Ciphertext |-> Seal(v, key, nonce),
         Nonce |-> nonce,
         Version |-> 1,
         SchemaVersion |-> SchemaVersion,
         KDFParams |-> DefaultKDFParams,
         Cipher |-> "xchacha20poly1305"]

\* the device has no vault file, or the vault file of an older release
InitSolo ==
    /\ proc = [x \in Procs |-> IdleProc]
    /\ now = 0
    /\ sm = [x \in Procs |-> NoKey]
    /\ doc = NoDoc
    /\ remote = Nil
    /\ \E legacy \in BOOLEAN :
            local = [d \in Devices |-> IF legacy /\ d = Solo
                                       THEN LegacyEnvelope(d, "p1") ELSE Nil]
    /\ unlockedVault = [d \in Devices |-> Nil]
    /\ vaultKey = [d \in Devices |-> NoKey]
    /\ session = [d \in Devices |-> Nil]
    /\ pc = [d \in Devices |-> "idle"]
    /\ fetched = [d \in Devices |-> Nil]
    /\ last = NoOutcome
    /\ muts = [d \in Devices |-> 0]
    /\ used = Untracked

NextSolo == CommandsOf({Solo}, Passwords, Names, MaxSoloMutations)

SpecSolo == InitSolo /\ [][NextSolo]_vars

\* ---- concurrent invocations on the vault file of one device --------------------
\* Two invocations of add --no-sync run on device Solo at the same time.  Each
\* shared access to the vault file is a step of its own: the read of
\* ensureUnlocked, the LoadEncryptedVault of saveVault, and the two halves of
\* os.WriteFile (open with O_TRUNC, then write).  The Remote Record is absent.

\* the vault file between the open with O_TRUNC and the end of the write
Truncated == [truncated |-> TRUE]

\* the vault file after two writes of different lengths overlapped
Garbled == [garbled |-> TRUE]

\* EncryptedVaultFromJSON succeeds on the content
IsEnvelope(f) == f # Nil /\ f # Truncated /\ f # Garbled

InFlight == {x \in Procs : proc[x].pc \in {"load", "open", "write"}}

ProcDone(x, addName, err) ==
    [IdleProc EXCEPT !.pc = "done", !.name = addName, !.err = err]

\* addCmd up to saveVault: ensureUnlocked reads and decrypts the vault file,
\* AddEntry changes the vault in memory
ProcAddCmd(x, addName, password, net) ==
    /\ proc[x].pc = "idle"
    /\ muts[Solo] + Cardinality(InFlight) < MaxProcSaves
    /\ IF ~IsEnvelope(local[Solo])
       THEN /\ proc' = [proc EXCEPT ![x] =
                    ProcDone(x, addName, "failed to parse vault file")]
            /\ UNCHANGED session
       ELSE LET u == ensureUnlocked(Solo, password, net)
            IN  /\ session' = [session EXCEPT ![Solo] = u.sess]
                /\ IF u.err # ""
                   THEN proc' = [proc EXCEPT ![x] = ProcDone(x, addName, u.err)]
                   ELSE IF GetEntry(u.v, addName) # 0
                   THEN proc' = [proc EXCEPT ![x] =
                            ProcDone(x, addName, "entry already exists")]
                   ELSE /\ Len(u.v.Entries) < MaxEntries
                        /\ proc' = [proc EXCEPT ![x] =
                                [pc |-> "load", name |-> addName,
                                 v |-> AddEntry(u.v, FreshID(u.v), addName, "", "pw", "",
                                               "", NoCodes, now),
                                 key |-> u.key, ev |-> Nil, err |-> "",
                                 base |-> local[Solo].Version]]
    /\ UNCHANGED <<remote, local, unlockedVault, vaultKey, pc, fetched, last, muts, now, doc, sm, used>>

\* saveVault: localStore.LoadEncryptedVault()
ProcLoadEncryptedVault(x) ==
    /\ proc[x].pc = "load"
    /\ IF IsEnvelope(local[Solo])
       THEN proc' = [proc EXCEPT ![x].ev = local[Solo], ![x].pc = "open"]
       ELSE proc' = [proc EXCEPT ![x].err = "failed to load encrypted vault",
                                 ![x].pc = "done"]
    /\ UNCHANGED <<remote, local, unlockedVault, vaultKey, session, pc, fetched, last,
                   muts, now, doc, sm, used>>

\* EncryptAndSave up to the open of os.WriteFile, which truncates the file
ProcOpenTruncate(x) ==
    /\ proc[x].pc = "open"
    /\ proc' = [proc EXCEPT
            ![x].ev = EncryptAndSave(proc[x].v, proc[x].key, @,
                                     FreshNonce(Solo, @.Version + 1, x)),
            ![x].pc = "write"]
    /\ used' = Sealed(SealsOf(EncryptAndSave(proc[x].v, proc[x].key, proc[x].ev,
                                             FreshNonce(Solo, proc[x].ev.Version + 1, x))))
    /\ local' = [local EXCEPT ![Solo] = Truncated]
    /\ UNCHANGED <<remote, unlockedVault, vaultKey, session, pc, fetched, last, muts, now, doc, sm>>

\* the write of os.WriteFile at offset 0: when another write landed since the
\* open, the bytes beyond this write stay and the content may not parse
ProcWrite(x, whole) ==
    /\ proc[x].pc = "write"
    /\ local' = [local EXCEPT ![Solo] =
            IF local[Solo] = Truncated \/ whole THEN proc[x].ev ELSE Garbled]
    /\ muts' = [muts EXCEPT ![Solo] = @ + 1]
    /\ proc' = [proc EXCEPT ![x].pc = "done"]
    /\ UNCHANGED <<remote, unlockedVault, vaultKey, session, pc, fetched, last, now, doc, sm, used>>

\* the invocation is killed between two of its steps
ProcCrash(x) ==
    /\ proc[x].pc \in {"load", "open", "write"}
    /\ proc' = [proc EXCEPT ![x].pc = "crashed", ![x].err = "killed"]
    /\ UNCHANGED <<remote, local, unlockedVault, vaultKey, session, pc, fetched, last,
                   muts, now, doc, sm, used>>

\* the invocation has returned; the next one starts from nothing
ProcExit(x) ==
    /\ proc[x].pc \in {"done", "crashed"}
    /\ proc' = [proc EXCEPT ![x] = IdleProc]
    /\ UNCHANGED <<remote, local, unlockedVault, vaultKey, session, pc, fetched, last,
                   muts, now, doc, sm, used>>

\* device Solo holds the vault file written by init, its push did not succeed
InitProc ==
    /\ proc = [x \in Procs |-> IdleProc]
    /\ now = 0
    /\ sm = [x \in Procs |-> NoKey]
    /\ doc = NoDoc
    /\ remote = Nil
    /\ local = [d \in Devices |-> IF d = Solo THEN InitEnvelope(d, "p1") ELSE Nil]
    /\ unlockedVault = [d \in Devices |-> Nil]
    /\ vaultKey = [d \in Devices |-> NoKey]
    /\ session = [d \in Devices |-> Nil]
    /\ pc = [d \in Devices |-> "idle"]
    /\ fetched = [d \in Devices |-> Nil]
    /\ last = NoOutcome
    /\ muts = [d \in Devices |-> 0]
    /\ used = Untracked

NextProc ==
    \/ \E x \in Procs, n \in Names, net \in BOOLEAN : ProcAddCmd(x, n, "p1", net)
    \/ \E x \in Procs : ProcLoadEncryptedVault(x)
    \/ \E x \in Procs : ProcOpenTruncate(x)
    \/ \E x \in Procs, whole \in BOOLEAN : ProcWrite(x, whole)
    \/ \E x \in Procs : ProcCrash(x)
    \/ \E x \in Procs : ProcExit(x)

SpecProc == InitProc /\ [][NextProc]_vars

\* ---- a single device and the passing of time -----------------------------------
Tick ==
    /\ now < MaxClock
    /\ now' = now + 1
    /\ UNCHANGED <<remote, local, unlockedVault, vaultKey, session, pc, fetched, last,
                   muts, proc, sm, used, doc>>

NextSession ==
    \/ CommandsOf({Solo}, Passwords, {"a"}, MaxAuthMutations)
    \/ Tick

SpecSession == Init /\ [][NextSession]_vars

\* ---- properties ------------------------------------------------------------------

\* the step completes a SaveVault request of device d that reached the store
PushAnswered(d) == Pushing(d) /\ pc'[d] = "idle" /\ last'.put # "error"

NoneVersion == 0

\* the master password an envelope's vault key is wrapped under
PasswordOf(ev) == ev.EncVaultKey.k[2]

\* C1: of two concurrent pushes to the Remote Store that carry the same expected
\* version exactly one succeeds: once the push of one device has succeeded, the
\* pending push of another device with the same expected version meets
\* VersionConflict, whichever envelopes the two carry.
C1_OneOfTwoConcurrentPushesSucceeds ==
    [][\A d \in Devices, e \in Devices :
        (d # e /\ Pushing(e) /\ PushAnswered(d) /\ Expected(d) = Expected(e)
            /\ last'.put = "ok")
        => ~SaveVaultOK(remote', Expected(e))]_vars

\* C2 as stated: a put replaces the Remote Record only if the stored version
\* equals the expected version, or no record exists and the expected version
\* denotes "none"; in every other case it returns VersionConflict and leaves the
\* Remote Record unchanged.
C2_PutOnlyOnMatchOrExpectedNone ==
    [][\A d \in Devices : PushAnswered(d) =>
        IF (IF remote = Nil THEN Expected(d) = NoneVersion
            ELSE remote.Version = Expected(d))
        THEN TRUE
        ELSE last'.put = "conflict" /\ remote' = remote]_vars

\* C2 amended: a put replaces the Remote Record with the pushed envelope exactly
\* when no record exists (whatever the expected version) or the stored version
\* equals the expected version; when a record with another version exists it
\* returns VersionConflict; a put that does not succeed leaves the Remote Record
\* unchanged.
C2_PutOnlyOnMatchOrAbsent ==
    [][\A d \in Devices :
        /\ PushAnswered(d) =>
            IF (IF remote = Nil THEN TRUE ELSE remote.Version = Expected(d))
            THEN last'.put = "ok" /\ remote' = local[d]
            ELSE last'.put = "conflict" /\ remote' = remote
        /\ (Pushing(d) /\ pc'[d] = "idle" /\ last'.put # "ok") => remote' = remote]_vars

\* a put was refused with VersionConflict and the Remote Record is still there
C2_Witness ==
    /\ last.put = "conflict"
    /\ remote # Nil
    /\ remote.Version # last.exp

\* C3: the version of the Remote Record never decreases, and a Remote Record
\* never disappears, whatever the devices do.
C3_RemoteVersionNeverDecreases ==
    [][remote # Nil => (remote' # Nil /\ remote'.Version >= remote.Version)]_vars

\* a Sync of a device with a strictly older envelope has completed
C3_Witness ==
    /\ last.op = "sync"
    /\ last.err = ""
    /\ pc[last.dev] = "idle"
    /\ remote # Nil
    /\ remote.Version >= 2
    /\ local[last.dev].Version < remote.Version

\* C4: a Sync that fetches a remote envelope newer than the local one returns the
\* remote envelope, issues no put and leaves the Remote Record unchanged.
C4_SyncRemoteNewerNoPush ==
    [][\A d \in Devices :
        (/\ SyncCmd(d, TRUE)
         /\ local[d] # Nil
         /\ remote # Nil
         /\ local[d].Version < remote.Version)
        => /\ pc'[d] = "idle"
           /\ last'.err = ""
           /\ last'.synced = "remote"
           /\ last'.put = "none"
           /\ remote' = remote]_vars

C4_Witness ==
    /\ last.op = "sync"
    /\ last.synced = "remote"
    /\ last.put = "none"
    /\ remote # Nil
    /\ local[last.dev].Version < remote.Version

\* C5: a Sync that fetches a remote envelope R not newer than the local envelope L
\* pushes L with expected version R.version; when the Remote Record is still R at
\* the push (and the request reaches the store), Sync returns L and the Remote
\* Record is L, and the Local Replica is still L.
C5_SyncLocalNewerPushes ==
    [][\A d \in Devices :
        /\ (/\ SyncCmd(d, TRUE)
            /\ local[d] # Nil
            /\ remote # Nil
            /\ local[d].Version >= remote.Version)
           => /\ pc'[d] = "sync_push"
              /\ fetched'[d] = remote
              /\ remote' = remote
        /\ (/\ SyncPush(d, TRUE)
            /\ fetched[d] # Nil
            /\ remote = fetched[d])
           => /\ last'.put = "ok"
              /\ last'.exp = fetched[d].Version
              /\ last'.err = ""
              /\ last'.synced = "local"
              /\ remote' = local[d]
              /\ local' = local]_vars

\* a Sync pushed over an existing Remote Record
C5_Witness ==
    /\ last.op = "sync"
    /\ last.put = "ok"
    /\ last.synced = "local"
    /\ last.exp # local[last.dev].Version - 1
    /\ remote = local[last.dev]

\* C6: Sync reports a failure for VersionConflict only after it has fetched the
\* remote again and retried.
C6_SyncRetriesOnConflict ==
    (last.op = "sync" /\ last.put = "conflict") => last.fetches > 1

\* C7: when the sync command completes with the remote envelope newer than the
\* local one, the package variables are nil and the Local Replica holds the
\* remote envelope.
C7_SyncPullsNewerRemote ==
    (last.op = "sync" /\ last.err = "" /\ last.synced = "remote")
    => /\ last.v = Nil
       /\ last.key = NoKey
       /\ local[last.dev] = remote

\* C8: the persisted version of a Local Replica is the initial version plus the
\* number of mutations (add, update, remove, rotate-master) persisted since.
C8_VersionMonotonicity ==
    \A d \in Devices : local[d] # Nil => local[d].Version = 1 + muts[d]

\* a mutation was persisted on top of an earlier mutation
C8_Witness ==
    \E d \in Devices :
        /\ muts[d] >= 2
        /\ last.dev = d
        /\ last.op \in {"add", "update", "remove", "rotate"}
        /\ last.err = ""

\* C9: an add, update or remove whose remote push fails still succeeds: it
\* returns no error.
C9_PushFailureIsWarning ==
    (last.op \in {"add", "update", "remove"} /\ last.put \in {"conflict", "error"})
    => last.err = ""

\* C10: unlock with a password other than the one the Local Replica is under
\* fails, sets no unlockedVault and no vaultKey, and leaves the session file as
\* it was, whatever the Remote Record is.
C10_WrongPasswordRejected ==
    [][\A d \in Devices, p \in Passwords, net \in BOOLEAN :
        (/\ UnlockCmd(d, p, net)
         /\ local[d] # Nil
         /\ p # PasswordOf(local[d]))
        => /\ last'.err # ""
           /\ last'.v = Nil
           /\ last'.key = NoKey
           /\ session'[d] = session[d]]_vars

\* C11: unlock on a device without a Local Replica, while the Remote Record
\* holds an envelope under the password typed in and the store answers, falls
\* back to the Remote Store: it returns no error and holds the vault of the
\* remote envelope.
C11_UnlockFallsBackWhenLocalMissing ==
    [][\A d \in Devices, p \in Passwords :
        (/\ UnlockCmd(d, p, TRUE)
         /\ local[d] = Nil
         /\ remote # Nil
         /\ p = PasswordOf(remote))
        => /\ last'.err = ""
           /\ last'.v = remote.Ciphertext.pt]_vars

\* C12: after init with a password and any sequence of successful add, update
\* and remove commands, lock followed by unlock with that password returns no
\* error and yields the entries last saved to the Local Replica, in their order.
C12_UnlockReproducesLastSave ==
    [][\A d \in Devices, p \in Passwords, net \in BOOLEAN :
        (/\ UnlockCmd(d, p, net)
         /\ local[d] # Nil
         /\ session[d] = Nil
         /\ p = PasswordOf(local[d]))
        => /\ last'.err = ""
           /\ IF last'.v = Nil THEN FALSE
              ELSE last'.v.Entries = local[d].Ciphertext.pt.Entries]_vars

\* C13: a successful rotate-master from password p to password q persists an
\* envelope with a new salt, a new wrapped key under a new wrapped-key nonce and
\* the version incremented by one, with the payload untouched; when the
\* envelope opened under p before, it opens under q afterwards and yields the
\* same vault (same entries in the same order).
C13_RotationPreservesEntries ==
    [][\A d \in Devices, p \in Passwords, q \in Passwords :
        (/\ local[d] # Nil
         /\ pc[d] = "idle"
         /\ pc'[d] = "rotate_push"
         /\ RotateMasterCmd(d, p, q, q))
        => /\ local'[d].SaltMaster # local[d].SaltMaster
           /\ local'[d].EncVaultKey # local[d].EncVaultKey
           /\ local'[d].VaultKeyNonce # local[d].VaultKeyNonce
           /\ local'[d].Version = local[d].Version + 1
           /\ local'[d].Ciphertext = local[d].Ciphertext
           /\ decryptVault(local[d], p).ok =>
                /\ decryptVault(local'[d], q).ok
                /\ decryptVault(local'[d], q).v = decryptVault(local[d], p).v]_vars

\* unlock succeeded on a vault with entries whose last persisted mutation was a
\* rotation to a password other than the one of the envelope pushed before
C13_Witness ==
    /\ last.op = "unlock"
    /\ last.err = ""
    /\ local[last.dev] # Nil
    /\ local[last.dev].Version >= 2
    /\ local[last.dev].SaltMaster = GenerateSalt(last.dev, local[last.dev].Version)
    /\ remote # Nil
    /\ remote.Version < local[last.dev].Version
    /\ PasswordOf(remote) # PasswordOf(local[last.dev])
    /\ last.v = local[last.dev].Ciphertext.pt
    /\ Len(last.v.Entries) > 0

\* C14: rotate-master run with a current password other than the one the
\* Local Replica is under, or with two different entries of the new password,
\* returns an error, issues no push and leaves the Local Replica and the Remote
\* Record as they were.
C14_RotateRequiresReauthentication ==
    [][\A d \in Devices, p \in Passwords, q1 \in Passwords, q2 \in Passwords :
        (/\ local[d] # Nil
         /\ (p # PasswordOf(local[d]) \/ q1 # q2)
         /\ RotateMasterCmd(d, p, q1, q2))
        => /\ last'.op = "rotate"
           /\ last'.err \in {"failed to decrypt vault key", "passwords do not match"}
           /\ pc'[d] = "idle"
           /\ local' = local
           /\ remote' = remote]_vars

\* rotate-master was refused for a wrong current password on a vault that has
\* a Remote Record
C14_Witness ==
    /\ last.op = "rotate"
    /\ last.err = "failed to decrypt vault key"
    /\ local[last.dev] # Nil
    /\ remote # Nil
    /\ pc[last.dev] = "idle"

\* an envelope without the wrapped-key nonce field that is otherwise valid: the
\* vault key is wrapped under the payload nonce and the payload is sealed under
\* the vault key
ValidLegacy(ev) ==
    /\ ev.VaultKeyNonce = EmptyString
    /\ ev.EncVaultKey.n = ev.Nonce
    /\ ev.Ciphertext.n = ev.Nonce
    /\ ev.Ciphertext.k = ev.EncVaultKey.pt

\* C15: unlock of a valid legacy envelope with its password succeeds and yields
\* its vault and vault key; rotate-master with the current password of a valid
\* legacy envelope unwraps the key as well: it succeeds and the rotated
\* envelope opens under the new password to the same vault.
C15_LegacyEnvelopeUnlocks ==
    [][\A d \in Devices, p \in Passwords, q \in Passwords, net \in BOOLEAN :
        /\ (/\ local[d] # Nil
            /\ ValidLegacy(local[d])
            /\ p = PasswordOf(local[d])
            /\ UnlockCmd(d, p, net))
           => /\ last'.err = ""
              /\ last'.v = local[d].Ciphertext.pt
              /\ last'.key = local[d].EncVaultKey.pt
              /\ session'[d] = SaveSession(d, local[d].EncVaultKey.pt, session[d])
        /\ (/\ local[d] # Nil
            /\ ValidLegacy(local[d])
            /\ p = PasswordOf(local[d])
            /\ RotateMasterCmd(d, p, q, q))
           => /\ last'.err = ""
              /\ pc'[d] = "rotate_push"
              /\ decryptVault(local'[d], q).ok
              /\ decryptVault(local'[d], q).v = local[d].Ciphertext.pt]_vars

\* a legacy envelope was unlocked
C15_Witness ==
    /\ last.op = "unlock"
    /\ last.err = ""
    /\ local[last.dev] # Nil
    /\ ValidLegacy(local[last.dev])
    /\ last.v = local[last.dev].Ciphertext.pt
    /\ Len(last.v.Entries) > 0

\* C16: every envelope that init, an add, update or remove save, or
\* rotate-master writes to the Local Replica has a non-empty wrapped-key nonce,
\* also when the envelope it replaces had none.
C16_NewWritesPopulateVaultKeyNonce ==
    [][\A d \in Devices :
        (/\ local'[d] # local[d]
         /\ last'.op \in {"init", "add", "update", "remove", "rotate"})
        => local'[d].VaultKeyNonce # EmptyString]_vars

\* C17: init run on a device that has a Local Replica fails with "vault already
\* exists", and init with two different password entries fails with "passwords
\* do not match"; in both cases it issues no push and the Local Replicas and
\* the Remote Record are as before.
C17_InitFailsWithoutChange ==
    [][\A d \in Devices, p1 \in Passwords, p2 \in Passwords :
        (/\ (local[d] # Nil \/ p1 # p2)
         /\ InitCmd(d, p1, p2))
        => /\ last'.op = "init"
           /\ last'.err = (IF local[d] # Nil THEN "vault already exists"
                           ELSE "passwords do not match")
           /\ pc'[d] = "idle"
           /\ local' = local
           /\ remote' = remote
           /\ session' = session]_vars

\* init was refused on a device that holds a Local Replica while the account
\* has a Remote Record
C17_Witness ==
    /\ last.op = "init"
    /\ last.err = "vault already exists"
    /\ local[last.dev] # Nil
    /\ remote # Nil
    /\ pc[last.dev] = "idle"

\* C18: the save of the vault file is atomic: no invocation that reads the file
\* while another one saves it finds content that does not parse, and when an
\* invocation was killed during its save and no write is in progress the file
\* holds a complete envelope.
C18_LocalSaveAtomic ==
    /\ \A x \in Procs :
            proc[x].err \notin {"failed to parse vault file",
                                "failed to load encrypted vault"}
    /\ ((\E x \in Procs : proc[x].pc = "crashed")
            /\ (\A x \in Procs : proc[x].pc # "write"))
        => IsEnvelope(local[Solo])

\* C19: when two invocations that add entries of different names to the same
\* vault file, both started from version V, have both returned without error,
\* the vault file holds an envelope of version V+2 whose vault has both
\* entries.
C19_NoLostUpdate ==
    \A x \in Procs, y \in Procs :
        (/\ x # y
         /\ proc[x].pc = "done" /\ proc[x].err = ""
         /\ proc[y].pc = "done" /\ proc[y].err = ""
         /\ proc[x].name # proc[y].name
         /\ proc[x].base = proc[y].base)
        => IF ~IsEnvelope(local[Solo]) THEN FALSE
           ELSE /\ local[Solo].Version = proc[x].base + 2
                /\ GetEntry(local[Solo].Ciphertext.pt, proc[x].name) # 0
                /\ GetEntry(local[Solo].Ciphertext.pt, proc[y].name) # 0

\* C20: once a command has saved a session for vault key k, LoadSession of that
\* session file at any time up to its expiry time returns k, in whichever
\* process of the device it runs, as long as the file is neither cleared nor
\* written again.
C20_SessionRoundTrip ==
    [][\A d \in Devices :
        (session'[d] # Nil /\ session'[d] # session[d])
        => /\ last'.key # NoKey
           /\ session'[d].ExpiresAt = now' + SessionTimeout
           /\ \A t \in now'..(MaxClock + SessionTimeout) :
                t <= session'[d].ExpiresAt =>
                    LoadSession(d, session'[d], t) =
                        [ok |-> TRUE, key |-> last'.key, err |-> ""]]_vars

\* an add succeeded on the vault key of a session saved by an earlier command
\* at an earlier time
C20_Witness ==
    /\ last.op = "add"
    /\ last.err = ""
    /\ session[last.dev] # Nil
    /\ session[last.dev].ExpiresAt - SessionTimeout < now
    /\ now <= session[last.dev].ExpiresAt
    /\ LoadSession(last.dev, session[last.dev], now).ok
    /\ last.key = LoadSession(last.dev, session[last.dev], now).key

\* a command of device d that goes through ensureUnlocked
UsesSession(d, p, net) ==
    \E n \in Names, s \in BOOLEAN :
        \/ last'.op = "add" /\ AddCmd(d, n, s, p, net)
        \/ last'.op = "remove" /\ RemoveCmd(d, n, s, p, net)
        \/ last'.op = "update" /\ \E m \in Names \cup {""} : UpdateCmd(d, n, m, s, p, net)

\* C21: LoadSession at a time later than the creation of the session plus the
\* session timeout returns "session expired" and no vault key, and removes the
\* session file, so that LoadSession at any later time returns "no active
\* session"; the file stays absent unless the passphrase unlock that follows
\* succeeds and saves a new session.
C21_ExpiredSessionIsCleared ==
    [][\A d \in Devices, p \in Passwords, net \in BOOLEAN :
        (/\ session[d] # Nil
         /\ now > session[d].ExpiresAt
         /\ UsesSession(d, p, net))
        => /\ LoadSession(d, session[d], now) =
                [ok |-> FALSE, key |-> NoKey, err |-> "session expired"]
           /\ LoadSessionFile(session[d], now) = Nil
           /\ \A t \in now..(MaxClock + 1) :
                LoadSession(d, LoadSessionFile(session[d], now), t) =
                    [ok |-> FALSE, key |-> NoKey, err |-> "no active session"]
           /\ last'.serr = "session expired"
           /\ IF last'.key = NoKey
              THEN session'[d] = Nil
              ELSE session'[d] = SaveSession(d, last'.key, Nil)]_vars

\* a command found the session file expired, the passphrase typed then was
\* wrong, and the session file is gone
C21_Witness ==
    /\ last.op \in {"add", "remove", "update"}
    /\ last.serr = "session expired"
    /\ last.err = "failed to unlock vault"
    /\ session[last.dev] = Nil
    /\ now > SessionTimeout

\* ---- a session file that does not authenticate ------------------------------
\* the ways in which the content of a session file can fail to authenticate
Tamperings == {"session_key", "vault_key", "stale"}

\* the session file sess after its content changed outside vaultctl: the
\* wrapped session key or the wrapped vault key was altered, or the file was
\* left behind by another vault and wraps the key of that vault
Tampered(sess, how) ==
    CASE how = "session_key" ->
            [sess EXCEPT !.SessionKey = [@ EXCEPT !.k = <<"altered">>]]
      [] how = "vault_key" ->
            [sess EXCEPT !.EncryptedVaultKey = [@ EXCEPT !.k = <<"altered">>]]
      [] how = "stale" ->
            [sess EXCEPT !.EncryptedVaultKey = [@ EXCEPT !.pt = <<"vk", "other">>]]

\* what LoadSession reads is not what SaveSession wrote
TamperSession(d, how) ==
    /\ pc[d] = "idle"
    /\ session[d] # Nil
    /\ session' = [session EXCEPT ![d] = Tampered(@, how)]
    /\ UNCHANGED <<remote, local, unlockedVault, vaultKey, pc, fetched, last, muts, proc,
                   now, doc, sm, used>>

NextTamper ==
    \/ CommandsOf({Solo}, Passwords, {"a"}, MaxAuthMutations)
    \/ \E how \in Tamperings : TamperSession(Solo, how)

SpecTamper == Init /\ [][NextTamper]_vars

\* the session file of device d fails one of the three authentications of the
\* session path of ensureUnlocked
SessionInvalid(d) ==
    LET ls == LoadSession(d, session[d], now)
    IN  IF ls.ok
        THEN local[d] # Nil /\ ~DecryptOK(local[d].Ciphertext, local[d].Nonce, ls.key)
        ELSE ls.err \in {"failed to decrypt session key", "failed to decrypt vault key"}

\* C22: when the session key does not unwrap under the device key, the vault
\* key does not unwrap under the session key, or the envelope does not decrypt
\* under the cached vault key, the command clears the session (no session file
\* exists any more, unless the passphrase unlock that follows saves a new one)
\* and falls back to the passphrase unlock.
C22_InvalidSessionIsCleared ==
    [][\A d \in Devices, p \in Passwords, net \in BOOLEAN :
        (/\ session[d] # Nil
         /\ SessionInvalid(d)
         /\ UsesSession(d, p, net))
        => /\ IF unlockRun(d, p, net, Nil).err # ""
              THEN last'.err = unlockRun(d, p, net, Nil).err
              ELSE last'.key = unlockRun(d, p, net, Nil).key
           /\ IF last'.key = NoKey
              THEN session'[d] = Nil
              ELSE LoadSession(d, session'[d], now).ok]_vars

\* ---- the SessionManager of two processes on one session file -------------------
MgrSaveSession(x, key) ==
    /\ session' = [session EXCEPT ![Solo] = SaveSessionIn(Solo, key, @, sm[x])]
    /\ sm' = [sm EXCEPT ![x] = GetSessionKeyIn(Solo, session[Solo], sm[x])]
    /\ last' = Outcome(Solo, "SaveSession", "", "none", "none", 0, Nil, key)
    /\ UNCHANGED <<remote, local, unlockedVault, vaultKey, pc, fetched, muts, proc, now, doc,
                   used>>

MgrLoadSession(x) ==
    /\ session' = [session EXCEPT ![Solo] = LoadSessionFile(@, now)]
    /\ sm' = [sm EXCEPT ![x] = LoadSessionKey(Solo, session[Solo], now, @)]
    /\ LET ls == LoadSession(Solo, session[Solo], now)
       IN  last' = Outcome(Solo, "LoadSession", ls.err, "none", "none", 0, Nil, ls.key)
    /\ UNCHANGED <<remote, local, unlockedVault, vaultKey, pc, fetched, muts, proc, now, doc,
                   used>>

MgrClearSession(x) ==
    /\ session' = [session EXCEPT ![Solo] = ClearSession(@, sm[x]).file]
    /\ sm' = [sm EXCEPT ![x] = ClearSession(session[Solo], @).sessionKey]
    /\ last' = Outcome(Solo, "ClearSession", "", "none", "none", 0, Nil, NoKey)
    /\ UNCHANGED <<remote, local, unlockedVault, vaultKey, pc, fetched, muts, proc, now, doc,
                   used>>

\* the process returns, the next one starts with a new SessionManager
MgrExit(x) ==
    /\ sm[x] # NoKey
    /\ sm' = [sm EXCEPT ![x] = NoKey]
    /\ UNCHANGED <<remote, local, unlockedVault, vaultKey, session, pc, fetched, last,
                   muts, proc, now, doc, used>>

NextMgr ==
    \/ \E x \in Procs : MgrSaveSession(x, GenerateVaultKey(Solo))
    \/ \E x \in Procs : MgrLoadSession(x)
    \/ \E x \in Procs : MgrClearSession(x)
    \/ \E x \in Procs : MgrExit(x)
    \/ Tick

SpecMgr == Init /\ [][NextMgr]_vars

\* C23: after ClearSession, whether or not the session file was there and
\* whether or not the SessionManager held a session key, the session file does
\* not exist and the SessionManager holds no session key, and a second
\* ClearSession changes nothing.
C23_ClearSessionComplete ==
    [][\A x \in Procs :
        MgrClearSession(x)
        => /\ session'[Solo] = Nil
           /\ sm'[x] = NoKey
           /\ ClearSession(session'[Solo], sm'[x]) =
                [file |-> session'[Solo], sessionKey |-> sm'[x]]]_vars

\* C24: lock leaves no in-memory vault, no in-memory vault key and no session
\* file, and the next add, update or remove of the device finds no active
\* session and depends on the passphrase typed at the prompt: when that
\* passphrase does not unlock the vault the command fails with the error of
\* unlock and the vault file is unchanged.
C24_LockRequiresPassphrase ==
    [][\A d \in Devices :
        /\ (last'.op = "lock" /\ last'.dev = d /\ LockCmd(d))
           => /\ unlockedVault'[d] = Nil
              /\ vaultKey'[d] = NoKey
              /\ session'[d] = Nil
              /\ LoadSession(d, session'[d], now').err = "no active session"
        /\ \A p \in Passwords, net \in BOOLEAN :
             (/\ last.op = "lock"
              /\ last.dev = d
              /\ last'.op \in {"add", "remove", "update"}
              /\ last'.dev = d
              /\ UsesSession(d, p, net))
             => LET r == unlockRun(d, p, net, Nil)
                IN  /\ last'.serr = "no active session"
                    /\ IF r.err # ""
                       THEN /\ last'.err = r.err
                            /\ last'.key = NoKey
                            /\ local' = local
                       ELSE /\ last'.key = r.key
                            /\ session'[d] = r.sess]_vars

\* an add or update had stored the entry "b" and saved a session, and a later
\* add found no session file and failed on a wrong passphrase although the
\* vault file unlocks with the right one
C24_Witness ==
    /\ last.op = "add"
    /\ last.serr = "no active session"
    /\ last.err = "failed to unlock vault"
    /\ session[last.dev] = Nil
    /\ \E p \in Passwords : decryptVault(local[last.dev], p).ok
    /\ GetEntry(local[last.dev].Ciphertext.pt, "b") # 0

\* C25: when init, unlock or rotate-master has returned, with or without an
\* error, every passphrase buffer it read and every master key it derived has
\* been overwritten by crypto.Zeroize.
C25_SecretsZeroizedOnReturn ==
    (last.op \in {"init", "unlock", "rotate"} /\ last.put # "pending")
        => last.live = {}

\* the fields of an EncryptedVault
EnvelopeFields ==
    {"VaultID", "SaltMaster", "EncVaultKey", "VaultKeyNonce", "Ciphertext", "Nonce",
     "Version", "SchemaVersion", "KDFParams", "Cipher"}

\* what the store can read in the record r without a key: identifiers, salt,
\* nonces and version are what they are named, and the two ciphertexts are
\* sealed, the vault key under a master key and the vault under a vault key
OnlyEnvelope(r) ==
    /\ DOMAIN r = EnvelopeFields
    /\ r.VaultID[1] = "vault"
    /\ r.SaltMaster[1] = "salt"
    /\ r.Nonce[1] = "nonce"
    /\ IF r.VaultKeyNonce = EmptyString THEN TRUE ELSE r.VaultKeyNonce[1] = "nonce"
    /\ r.Version \in Nat
    /\ r.EncVaultKey.k[1] = "mk"
    /\ r.EncVaultKey.n[1] = "nonce"
    /\ r.Ciphertext.k[1] = "vk"
    /\ r.Ciphertext.n[1] = "nonce"

\* C26: every record written to the remote store by init, an add/update/remove
\* sync, rotate-master or sync consists of the envelope fields only: the
\* master password, the master key, the vault key and the plaintext vault
\* occur in it only sealed inside the two ciphertexts.
C26_RemoteHoldsOnlyEnvelope ==
    [][\A d \in Devices :
        (Pushing(d) /\ pc'[d] = "idle" /\ last'.put = "ok")
        => /\ remote' = local[d]
           /\ OnlyEnvelope(remote')]_vars

\* a push of every kind has written the remote record: the one of a rotation
\* after those of init and of an add
C26_Witness ==
    /\ remote # Nil
    /\ last.op = "rotate"
    /\ last.put = "ok"
    /\ remote.Version >= 3
    /\ Len(remote.Ciphertext.pt.Entries) >= 1

\* ---- the seals made on one device ------------------------------------------------
\* as InitSolo, and the <<key, nonce>> pairs of every seal are recorded from the
\* start
InitNonce ==
    /\ proc = [x \in Procs |-> IdleProc]
    /\ now = 0
    /\ sm = [x \in Procs |-> NoKey]
    /\ doc = NoDoc
    /\ remote = Nil
    /\ \E legacy \in BOOLEAN :
            local = [d \in Devices |-> IF legacy /\ d = Solo
                                       THEN LegacyEnvelope(d, "p1") ELSE Nil]
    /\ unlockedVault = [d \in Devices |-> Nil]
    /\ vaultKey = [d \in Devices |-> NoKey]
    /\ session = [d \in Devices |-> Nil]
    /\ pc = [d \in Devices |-> "idle"]
    /\ fetched = [d \in Devices |-> Nil]
    /\ last = NoOutcome
    /\ muts = [d \in Devices |-> 0]
    /\ used = SealsOf(local[Solo])

NextNonce == CommandsOf({Solo}, {"p1"}, Names, MaxSoloMutations)

SpecNonce == InitNonce /\ [][NextNonce]_vars

\* C27: every write of the vault file by init, an add/update/remove save or
\* rotate-master seals under a <<key, nonce>> pair that no earlier seal of the
\* vault was made under, so that the payload nonces under one vault key are
\* pairwise distinct; and the nonce of the wrapped key written by init or
\* rotate-master is not the payload nonce.
C27_NoNonceReuse ==
    [][\A d \in Devices :
        (local'[d] # local[d] /\ local'[d] # Nil)
        => LET new == SealsOf(local'[d]) \ SealsOf(local[d])
           IN  /\ new # {}
               /\ new \cap used = {}
               /\ used' = used \cup new
               /\ last'.op \in {"init", "rotate"}
                    => /\ local'[d].VaultKeyNonce = local'[d].EncVaultKey.n
                       /\ local'[d].VaultKeyNonce # local'[d].Nonce
                       /\ local'[d].EncVaultKey.n # local'[d].Ciphertext.n]_vars

\* the vault was sealed three times under one vault key and its key wrapped
\* twice, by init and by a rotation
C27_Witness ==
    /\ local[Solo] # Nil
    /\ Cardinality({s \in used : s[1] = local[Solo].Ciphertext.k}) >= 3
    /\ Cardinality({s \in used : s[1][1] = "mk"}) >= 2
    /\ local[Solo].SaltMaster # GenerateSalt(Solo, 1)

\* C28: the push of a sync that found no remote record succeeds only when the
\* account still has no remote record at the moment of the write; when another
\* device has created one since the fetch, the push fails with a version
\* conflict and that record stays as it is.
C28_SyncAbsentPushExpectsNone ==
    [][\A d \in Devices :
        (/\ pc[d] = "sync_push"
         /\ fetched[d] = Nil
         /\ PushAnswered(d))
        => IF remote = Nil
           THEN last'.put = "ok" /\ remote' = local[d]
           ELSE /\ last'.put = "conflict"
                /\ last'.err = "failed to sync vault"
                /\ remote' = remote]_vars

\* ---- C29 ------------------------------------------------------------------------
\* C29: the tie-break discards a concurrent edit silently: whenever a sync
\* reads from the Remote Store an envelope that differs from the local one and
\* carries the same version, it decides to push, and when this push reaches
\* the store that still holds that envelope it succeeds, no error is returned
\* and the local envelope takes the place of the other device's envelope
C29_TieBreakDiscardsRemoteEdit ==
    [][\A d \in Devices :
        /\ (/\ pc[d] = "idle"
            /\ local[d] # Nil
            /\ remote # Nil
            /\ last'.op = "sync"
            /\ last'.dev = d
            /\ SyncCmd(d, TRUE))
           => IF remote.Version = local[d].Version /\ remote # local[d]
              THEN pc'[d] = "sync_push" /\ fetched'[d] = remote /\ Expected(d)' = remote.Version
              ELSE TRUE
        /\ (/\ pc[d] = "sync_push"
            /\ fetched[d] # Nil
            /\ remote = fetched[d]
            /\ SyncPush(d, TRUE))
           => IF fetched[d].Version = local[d].Version /\ fetched[d] # local[d]
              THEN /\ last'.put = "ok"
                   /\ last'.err = ""
                   /\ last'.over
                   /\ remote' = local[d]
                   /\ remote' # remote
                   /\ local' = local
              ELSE TRUE]_vars

\* device B's sync has replaced, with expectedVersion equal to its own version
\* and without error, an envelope of that version which device A still holds
C29_Witness ==
    /\ last.op = "sync"
    /\ last.put = "ok"
    /\ last.err = ""
    /\ last.over
    /\ remote = local[last.dev]
    /\ last.exp = remote.Version
    /\ \E a \in Devices \ {last.dev} :
          IF local[a] = Nil THEN FALSE
          ELSE /\ local[a].Version = last.exp
               /\ local[a] # remote
               /\ pc[a] = "idle"

\* ---- C30 ------------------------------------------------------------------------
\* C30: every envelope that init, an add, update or remove save, or
\* rotate-master writes to the Local Replica in place of no envelope or of one
\* that its passphrase unlocks is itself unlocked by its passphrase: the vault
\* key unwraps and the payload decrypts, also when the replaced envelope is a
\* legacy one.
C30_PersistedEnvelopeUnlocks ==
    [][\A d \in Devices :
        (/\ local'[d] # local[d]
         /\ last'.op \in {"init", "add", "update", "remove", "rotate"}
         /\ IF local[d] = Nil THEN TRUE
            ELSE decryptVault(local[d], PasswordOf(local[d])).ok)
        => /\ decryptVault(local'[d], PasswordOf(local'[d])).ok
           /\ decryptVault(local'[d], PasswordOf(local'[d])).key = local'[d].EncVaultKey.pt]_vars

C32_RotateRewrapsSameKey ==
    [][\A d \in Devices, p \in Passwords, q \in Passwords :
        (/\ last'.op = "rotate"
         /\ last'.dev = d
         /\ local'[d] # local[d]
         /\ RotateMasterCmd(d, p, q, q))
        => /\ local'[d].Ciphertext = local[d].Ciphertext
           /\ local'[d].Nonce = local[d].Nonce
           /\ local'[d].KDFParams = local[d].KDFParams
           /\ local'[d].VaultID = local[d].VaultID
           /\ decryptVault(local[d], p).ok
           /\ decryptVault(local'[d], q).ok
           /\ decryptVault(local'[d], q).key = decryptVault(local[d], p).key
           /\ local'[d].EncVaultKey # local[d].EncVaultKey]_vars

\* a rotation to a different passphrase has been written over an envelope that
\* held entries
C32_Witness ==
    /\ last.op = "rotate"
    /\ last.err = ""
    /\ local[last.dev] # Nil
    /\ local[last.dev].Version > 1
    /\ local[last.dev].SaltMaster = GenerateSalt(last.dev, local[last.dev].Version)
    /\ PasswordOf(local[last.dev]) = "p2"
    /\ Len(local[last.dev].Ciphertext.pt.Entries) > 0
    /\ local[last.dev].Nonce # FreshNonce(last.dev, local[last.dev].Version, "vault")

\* ---- C33 ------------------------------------------------------------------------
\* display names a user may type, one of which is spelled like an entry ID
NamesWithID == {"a", "id1"}

\* one device on which only init, unlock, lock, add and remove are run
NextNames ==
    \/ \E p1 \in {"p1"}, p2 \in {"p1"} : InitCmd(Solo, p1, p2)
    \/ \E net \in BOOLEAN : InitPush(Solo, net)
    \/ \E net \in BOOLEAN : UnlockCmd(Solo, "p1", net)
    \/ LockCmd(Solo)
    \/ \E n \in NamesWithID, s \in BOOLEAN, net \in BOOLEAN :
            SumOver(muts, Devices) < MaxNameMutations /\ AddCmd(Solo, n, s, "p1", net)
    \/ \E n \in NamesWithID, s \in BOOLEAN, net \in BOOLEAN :
            SumOver(muts, Devices) < MaxNameMutations /\ RemoveCmd(Solo, n, s, "p1", net)
    \/ \E net \in BOOLEAN : SavePush(Solo, net)

SpecNames == Init /\ [][NextNames]_vars

\* no two entries of the vault carry the same display name
UniqueNames(v) ==
    \A i \in 1..Len(v.Entries), j \in 1..Len(v.Entries) :
        i # j => v.Entries[i].Name # v.Entries[j].Name

\* C33: add with a name that is the name or the ID of an entry of the vault is
\* rejected with "entry already exists" and leaves the Local Replica (vault
\* and version), the Remote Record and the mutation count as they were; and
\* after every step of a run made of init, unlock, lock, add and remove only,
\* no two entries of the persisted vault share a name.
C33_NamesUniqueAtInsert ==
    [][/\ \A n \in NamesWithID, s \in BOOLEAN, net \in BOOLEAN :
            (/\ local[Solo] # Nil
             /\ last'.op = "add"
             /\ GetEntry(local[Solo].Ciphertext.pt, n) # 0
             /\ AddCmd(Solo, n, s, "p1", net))
            => /\ last'.err = "entry already exists"
               /\ local' = local
               /\ remote' = remote
               /\ muts' = muts
               /\ pc'[Solo] = "idle"
       /\ IF local'[Solo] = Nil THEN TRUE
          ELSE UniqueNames(local'[Solo].Ciphertext.pt)]_vars

\* an add was rejected while the vault held one entry and an add had room
C33_Witness ==
    /\ last.op = "add"
    /\ last.err = "entry already exists"
    /\ local[Solo] # Nil
    /\ Len(local[Solo].Ciphertext.pt.Entries) = 1
    /\ local[Solo].Ciphertext.pt.Entries[1].ID = "id1"
    /\ local[Solo].Version >= 2

\* ---- C34 ------------------------------------------------------------------------
\* the flags update is run with: no string flag, one of them, or all of them,
\* and --backup-codes absent, empty, made of separators only, or with a code
UpdateFlagSets ==
    {f \in {Flags(name, username, password, url, notes, changed, pieces) :
                name \in {"", "c"}, username \in {"", "u1"}, password \in {"", "s1"},
                url \in {"", "l1"}, notes \in {"", "n1"}, changed \in BOOLEAN,
                pieces \in {<<>>, <<"", "">>, <<"c1", "">>}} :
        /\ Cardinality({x \in {"name", "username", "password", "url", "notes"} :
                            f[x] # ""}) \in {0, 1, 5}
        /\ f.pieces # <<>> => f.changed}

\* the identifiers update is run with: a name, an ID, and one that no entry has
Identifiers == {"a", "id2", "zz"}

\* a device that ran init, add with every flag and add --name b, all at time
\* 0 and without a successful push; firstName is the name of the first entry
InitUpdate ==
    /\ proc = [x \in Procs |-> IdleProc]
    /\ now = 1
    /\ sm = [x \in Procs |-> NoKey]
    /\ doc = NoDoc
    /\ used = Untracked
    /\ remote = Nil
    /\ \E firstName \in {"a", "id2"} :
        LET v1 == AddEntry(NewVault(Solo), "id1", firstName, "u0", "s0", "l0", "n0",
                           CodesGiven(<<"c0">>), 0)
            v2 == AddEntry(v1, "id2", "b", "", "s0", "", "", NoCodes, 0)
            key == GenerateVaultKey(Solo)
            ev1 == EncryptAndSave(v1, key, InitEnvelope(Solo, "p1"),
                                  FreshNonce(Solo, 2, "vault"))
            ev2 == EncryptAndSave(v2, key, ev1, FreshNonce(Solo, 3, "vault"))
        IN  local = [d \in Devices |-> IF d = Solo THEN ev2 ELSE Nil]
    /\ unlockedVault = [d \in Devices |-> Nil]
    /\ vaultKey = [d \in Devices |-> NoKey]
    /\ session = [d \in Devices |-> Nil]
    /\ pc = [d \in Devices |-> "idle"]
    /\ fetched = [d \in Devices |-> Nil]
    /\ last = NoOutcome
    /\ muts = [d \in Devices |-> 0]

\* update and its push run on that device
NextUpdate ==
    \/ \E identifier \in Identifiers, f \in UpdateFlagSets, s \in BOOLEAN :
            /\ SumOver(muts, Devices) < MaxUpdateMutations
            /\ UpdateWith(Solo, identifier, f, s, "p1", TRUE)
    \/ \E net \in BOOLEAN : SavePush(Solo, net)

SpecUpdate == InitUpdate /\ [][NextUpdate]_vars

\* what update gives for a string field: the flag when it is not empty
Given(flag, old) == IF flag # "" THEN flag ELSE old

\* C34: an update whose identifier matches no entry fails with "entry not
\* found" and leaves the Local Replica and the Remote Record as they were; an
\* update whose identifier matches changes, in the first entry that matches by
\* ID or name, the name, username, password, URL and notes for which a
\* non-empty value was given, replaces the backup codes when --backup-codes
\* holds a code (by its codes) or was set to the empty string (by none), sets
\* the updated timestamp to the current time, and leaves the entry's ID,
\* created timestamp and position, and every other entry, as they were.
C34_UpdateChangesOnlyGivenFields ==
    [][(last'.op = "update" /\ pc[Solo] = "idle" /\ local[Solo] # Nil)
       => LET v == local[Solo].Ciphertext.pt
              w == local'[Solo].Ciphertext.pt
              f == last'.args.f
              hits == {i \in 1..Len(v.Entries) :
                          \/ v.Entries[i].ID = last'.args.identifier
                          \/ v.Entries[i].Name = last'.args.identifier}
              codes == SelectSeq(f.pieces, LAMBDA code : code # "")
          IN  IF hits = {}
              THEN /\ last'.err = "entry not found"
                   /\ local' = local
                   /\ remote' = remote
                   /\ pc'[Solo] = "idle"
              ELSE LET i == CHOOSE i \in hits : \A j \in hits : i <= j
                   IN  /\ last'.err = ""
                       /\ Len(w.Entries) = Len(v.Entries)
                       /\ \A j \in 1..Len(v.Entries) :
                              j # i => w.Entries[j] = v.Entries[j]
                       /\ w.Entries[i].ID = v.Entries[i].ID
                       /\ w.Entries[i].CreatedAt = v.Entries[i].CreatedAt
                       /\ w.Entries[i].UpdatedAt = now
                       /\ w.Entries[i].Name = Given(f.name, v.Entries[i].Name)
                       /\ w.Entries[i].Username = Given(f.username, v.Entries[i].Username)
                       /\ w.Entries[i].Password = Given(f.password, v.Entries[i].Password)
                       /\ w.Entries[i].URL = Given(f.url, v.Entries[i].URL)
                       /\ w.Entries[i].Notes = Given(f.notes, v.Entries[i].Notes)
                       /\ w.Entries[i].BackupCodes =
                              (IF codes # <<>> THEN codes
                               ELSE IF f.pieces = <<>> /\ f.changed THEN <<>>
                               ELSE v.Entries[i].BackupCodes)]_vars

\* an update that gave only a username has been saved: the first entry has the
\* new username and updated time, and its other fields as add had set them
C34_Witness ==
    /\ last.op = "update"
    /\ last.err = ""
    /\ last.args.f.username = "u1"
    /\ last.args.f.name = ""
    /\ local[Solo] # Nil
    /\ LET e == local[Solo].Ciphertext.pt.Entries[1]
       IN  /\ e.Username = "u1"
           /\ e.Name = "a"
           /\ e.Notes = "n0"
           /\ e.BackupCodes = <<"c0">>
           /\ e.CreatedAt = 0
           /\ e.UpdatedAt = 1

\* ---- C35 ------------------------------------------------------------------------
\* index of the character with code c in the standard base64 alphabet
\* (A-Z, a-z, 0-9, + and /), -1 for any other character
B64Index(c) ==
    IF c \in 65..90 THEN c - 65
    ELSE IF c \in 97..122 THEN c - 71
    ELSE IF c \in 48..57 THEN c + 4
    ELSE IF c = 43 THEN 62
    ELSE IF c = 47 THEN 63
    ELSE -1

B64Char(i) == CHOOSE c \in 43..122 : B64Index(c) = i

\* the padding character "="
Pad == 61

\* base64.StdEncoding.EncodeToString, which json.Marshal applies to a []byte
RECURSIVE EncodeToString(_)
EncodeToString(b) ==
    IF Len(b) = 0 THEN <<>>
    ELSE IF Len(b) = 1
    THEN <<B64Char(b[1] \div 4), B64Char((b[1] % 4) * 16), Pad, Pad>>
    ELSE IF Len(b) = 2
    THEN <<B64Char(b[1] \div 4), B64Char((b[1] % 4) * 16 + (b[2] \div 16)),
           B64Char((b[2] % 16) * 4), Pad>>
    ELSE <<B64Char(b[1] \div 4), B64Char((b[1] % 4) * 16 + (b[2] \div 16)),
           B64Char((b[2] % 16) * 4 + (b[3] \div 64)), B64Char(b[3] % 64)>>
         \o EncodeToString(SubSeq(b, 4, Len(b)))

\* base64.StdEncoding.DecodeString on a string without line breaks: quanta of
\* four characters, padding only at the end of the last one, stray bits of a
\* padded quantum ignored
RECURSIVE DecodeString(_)
DecodeString(s) ==
    IF Len(s) = 0 THEN [ok |-> TRUE, bytes |-> <<>>]
    ELSE IF Len(s) < 4 THEN [ok |-> FALSE, bytes |-> <<>>]
    ELSE LET v1 == B64Index(s[1])
             v2 == B64Index(s[2])
             v3 == B64Index(s[3])
             v4 == B64Index(s[4])
             rest == DecodeString(SubSeq(s, 5, Len(s)))
         IN  IF v1 < 0 \/ v2 < 0 THEN [ok |-> FALSE, bytes |-> <<>>]
             ELSE IF s[3] = Pad
             THEN [ok |-> s[4] = Pad /\ Len(s) = 4,
                   bytes |-> <<v1 * 4 + (v2 \div 16)>>]
             ELSE IF v3 < 0 THEN [ok |-> FALSE, bytes |-> <<>>]
             ELSE IF s[4] = Pad
             THEN [ok |-> Len(s) = 4,
                   bytes |-> <<v1 * 4 + (v2 \div 16), (v2 % 16) * 16 + (v3 \div 4)>>]
             ELSE IF v4 < 0 THEN [ok |-> FALSE, bytes |-> <<>>]
             ELSE [ok |-> rest.ok,
                   bytes |-> <<v1 * 4 + (v2 \div 16), (v2 % 16) * 16 + (v3 \div 4),
                               (v3 % 4) * 64 + v4>> \o rest.bytes]

\* Entry.UnmarshalJSON: the password of an entry whose "password" value is the
\* JSON string v (texts are the sequences of their character codes)
UnmarshalPassword(v) ==
    IF DecodeString(v).ok THEN DecodeString(v).bytes ELSE v

SeqsUpTo(S, n) == UNION {[1..k -> S] : k \in 0..n}

\* legacy passwords: texts over the characters A, Q, = and !
Texts == SeqsUpTo({65, 81, Pad, 33}, MaxTextLen)

\* binary passwords: byte strings over three byte values
ByteStrings == SeqsUpTo({0, 65, 255}, MaxBytesLen)

\* a vault document holds an entry whose password was written as legacy plain
\* text, or by json.Marshal as the base64 encoding of its bytes
InitJSON ==
    /\ proc = [x \in Procs |-> IdleProc]
    /\ now = 0
    /\ sm = [x \in Procs |-> NoKey]
    /\ used = Untracked
    /\ remote = Nil
    /\ local = [d \in Devices |-> Nil]
    /\ unlockedVault = [d \in Devices |-> Nil]
    /\ vaultKey = [d \in Devices |-> NoKey]
    /\ session = [d \in Devices |-> Nil]
    /\ pc = [d \in Devices |-> "idle"]
    /\ fetched = [d \in Devices |-> Nil]
    /\ last = NoOutcome
    /\ muts = [d \in Devices |-> 0]
    /\ \/ \E s \in Texts :
            doc = [pc |-> "stored", encoding |-> "text", password |-> s,
                   stored |-> s, loaded |-> <<>>]
       \/ \E b \in ByteStrings :
            doc = [pc |-> "stored", encoding |-> "base64", password |-> b,
                   stored |-> EncodeToString(b), loaded |-> <<>>]

\* VaultFromJSON reaches the entry
UnmarshalJSON ==
    /\ doc.pc = "stored"
    /\ doc' = [doc EXCEPT !.pc = "loaded", !.loaded = UnmarshalPassword(doc.stored)]
    /\ UNCHANGED <<remote, local, unlockedVault, vaultKey, session, pc, fetched, last,
                   muts, proc, now, sm, used>>

NextJSON == UnmarshalJSON

SpecJSON == InitJSON /\ [][NextJSON]_vars

\* C35: an entry loads with the password it was stored for: the bytes of the
\* text when the password was stored as legacy plain text, and the bytes that
\* were encoded when it was stored in base64.
C35_PasswordDecodesFromBothEncodings ==
    doc.pc = "loaded" => doc.loaded = doc.password

\* ---- C36 ------------------------------------------------------------------------
\* C36: a command that obtains the vault key from the session file at time t,
\* not after the expiry of the file, leaves a session file that expires at
\* t + SessionTimeout: the window is counted from the last use.
C36_SessionExtendedByUse ==
    [][\A d \in Devices :
        (/\ last'.dev = d
         /\ last'.op \in {"add", "update", "remove"}
         /\ last'.serr = ""
         /\ last'.err = ""
         /\ session[d] # Nil)
        => /\ now <= session[d].ExpiresAt
           /\ session'[d] # Nil
           /\ session'[d].ExpiresAt = now + SessionTimeout]_vars

\* ---- C37 ------------------------------------------------------------------------
\* C37: the push of an add, update or remove save carries the version the
\* Local Replica had before the mutation; it succeeds only when the Remote
\* Store holds no record or a record of that version, it is rejected as a
\* conflict whenever the request reaches a store holding a record of another
\* version, and a push that fails returns "failed to sync to DynamoDB" and
\* leaves the Remote Record as it was and the Local Replica at the mutated
\* envelope, one version above.
C37_FailedPushKeepsLocalSave ==
    [][\A d \in Devices, net \in BOOLEAN :
        (/\ pc[d] \in {"add_push", "update_push", "remove_push"}
         /\ last'.dev = d
         /\ SavePush(d, net))
        => /\ last'.exp = local[d].Version - 1
           /\ local' = local
           /\ last'.put = "ok" => (IF remote = Nil THEN TRUE
                                   ELSE remote.Version = local[d].Version - 1)
           /\ (IF remote = Nil THEN FALSE
               ELSE net /\ remote.Version # local[d].Version - 1)
              => last'.put = "conflict"
           /\ last'.put # "ok" => /\ last'.err = "failed to sync to DynamoDB"
                                  /\ remote' = remote]_vars

\* a save with sync was rejected as a conflict on an account with one writer:
\* the record in the store is an older envelope of the same device, the other
\* device has no vault, and the Local Replica is ahead by more than one version
C37_Witness ==
    /\ last.op \in {"add", "update", "remove"}
    /\ last.put = "conflict"
    /\ remote # Nil
    /\ local[last.dev] # Nil
    /\ remote.VaultID = local[last.dev].VaultID
    /\ remote.Version < local[last.dev].Version - 1
    /\ last.exp = local[last.dev].Version - 1
    /\ \A d \in Devices \ {last.dev} : local[d] = Nil

\* ---- C38 ------------------------------------------------------------------------
\* C38: once the Remote Store holds a record, every record that replaces it
\* carries the same vault identifier, whichever device and command push it.
C38_RemoteVaultIDStable ==
    [][IF remote = Nil \/ remote' = Nil THEN TRUE
       ELSE remote'.VaultID = remote.VaultID]_vars

\* ---- C39 ------------------------------------------------------------------------
\* C39: a rotate-master that writes the Local Replica leaves the session file
\* as it was; if LoadSession accepted that file before the rotation, it
\* accepts it at every time up to its expiry after the rotation, the vault key
\* it returns opens the payload of the rotated envelope, and ensureUnlocked
\* run after the rotation returns the vault from the session file, whatever
\* passphrase would be typed at a prompt.
C39_RotateKeepsSession ==
    [][\A d \in Devices, p \in Passwords :
        (/\ last'.op = "rotate"
         /\ last'.dev = d
         /\ local'[d] # local[d])
        => /\ session'[d] = session[d]
           /\ LoadSession(d, session[d], now).ok
              => /\ \A t \in now..(MaxClock + SessionTimeout) :
                        t <= session'[d].ExpiresAt =>
                            /\ LoadSession(d, session'[d], t).ok
                            /\ DecryptOK(local'[d].Ciphertext, local'[d].Nonce,
                                         LoadSession(d, session'[d], t).key)
                 /\ ensureUnlocked(d, p, TRUE)'.err = ""
                 /\ ensureUnlocked(d, p, TRUE)'.serr = ""
                 /\ ensureUnlocked(d, p, TRUE)'.v = local[d].Ciphertext.pt
                 /\ ensureUnlocked(d, p, TRUE)'.sess = session[d]]_vars

\* a rotation to another passphrase was written while a session saved at an
\* earlier time was active
C39_Witness ==
    /\ last.op = "rotate"
    /\ last.err = ""
    /\ last.put = "pending"
    /\ local[last.dev] # Nil
    /\ local[last.dev].SaltMaster = GenerateSalt(last.dev, local[last.dev].Version)
    /\ PasswordOf(local[last.dev]) = "p2"
    /\ session[last.dev] # Nil
    /\ session[last.dev].ExpiresAt - SessionTimeout < now
    /\ LoadSession(last.dev, session[last.dev], now).ok

====
